---- MODULE Spec2Model ----
(***************************************************************************)
(* xmlrw: one pull reader / forward writer facade over two XML engines     *)
(* (libxml2's xmlTextReader/xmlTextWriter, Microsoft's XmlLite).           *)
(*                                                                         *)
(* The facade (src/src/xml/reader.cpp, writer.cpp, xmllite_errmsg.cpp,     *)
(* stringconvert.cpp) is modelled statement by statement.  The engines are *)
(* outside the repository; they are modelled by the behaviour of the API   *)
(* calls the facade makes, as observed on libxml2 2.9 and as documented    *)
(* for XmlLite.  Both compile-time variants (HAVE_XMLLITE defined or not)  *)
(* are covered: the variable backend is chosen once and never changes.     *)
(*                                                                         *)
(* Text is a sequence of Unicode code points; a std::string is a sequence  *)
(* of UTF-8 bytes, a WCHAR string a sequence of UTF-16 code units.  A C    *)
(* pointer that may be null is a sequence of length 0 (null) or 1.         *)
(***************************************************************************)
EXTENDS Integers, Sequences, FiniteSets, TLC

VARIABLES
    backend,    \* "libxml2" | "xmllite": the engine this build was compiled for
    chunk,      \* xmlTextReader feeds its parser the input chunk by chunk: the
                \* number of nodes a chunk holds
    wcap,       \* the number of tokens the writer engine buffers before it hands
                \* them to the destination of its own accord
    phase,      \* "write" | "read" | "crashed": what the caller is doing
    \* ---- xml::writer and its engine
    todo,       \* the writer calls the caller has still to make
    wlive,      \* TRUE while the xml::writer object exists
    wnodes,     \* engine's stack of open elements, innermost first
    wns,        \* xmlTextWriter's nsstack: declarations waiting for a tag to close
    wstate,     \* IXmlWriter's place in the document: "start" | "prolog" |
                \* "content" | "epilog"
    wbuf,       \* tokens the engine has produced but not yet delivered
    wsink,      \* tokens delivered to the destination (file or std::ostream)
    wlog,       \* the writer calls made so far, with their outcomes
    wemit,      \* every token the engine has produced so far
    out_,       \* the destination: the caller's std::ostream (or the file)
    wbefore,    \* the engine's open elements and waiting declarations as they
                \* were before the last writer call
    \* ---- xml::reader and its engine
    doc,        \* the document under the reader: [nodes, err]
    pos,        \* engine cursor: index in doc.nodes of the current node, 0 = none
    attr,       \* engine cursor: 0 = on the node, k > 0 = on its k-th attribute
    rmode,      \* engine mode: "initial" | "interactive" | "eof" | "error"
    error,      \* xml::reader::impl::error (libxml2 build): [line, msg]
    ret,        \* what the last facade call returned or raised
    status,     \* the engine status the last facade call received
    seen,       \* the nodes successive read() calls reported as read, each with
                \* whether the call was made from an attribute position
    exhausted,  \* a read() has returned false at the end of the input
    walk,       \* the attribute walk on the current node (see NoWalk)
    nRead,      \* number of read() calls made
    engReads,   \* number of times the engine's advance operation was invoked
    \* ---- the stream bridges on their own
    in_,        \* the caller's std::istream under a stream-backed reader
    cbret,      \* what the last bridge callback reported
    obj,        \* the stream-backed object: "none" | "reader" | "writer" |
                \* "failed" (its construction threw) | "destroyed"
    \* ---- construction, moves and destruction of readers and writers
    made,       \* the construction the last step attempted, if it was one:
                \* the native objects it acquired and how it ended
    engines,    \* the native objects of every construction that succeeded
    owner       \* the facade objects: whether each is alive, and its impl_ (the
                \* place in engines of what it owns, 0 = nothing)

cvars == <<made, engines, owner>>
env == <<backend, chunk, wcap, cvars>>
bvars == <<in_, cbret, obj>>
wvars == <<todo, wlive, wnodes, wns, wstate, wbuf, wsink, wlog, wemit, out_, wbefore>>
rvars == <<doc, pos, attr, rmode, error, ret, status, seen, exhausted, walk, nRead,
           engReads>>
vars == <<backend, chunk, wcap, phase, todo, wlive, wnodes, wns, wstate, wbuf, wsink,
          wlog, wemit, out_, wbefore, doc, pos, attr, rmode, error, ret, status, seen,
          exhausted, walk, nRead, engReads, in_, cbret, obj, made, engines, owner>>

-----------------------------------------------------------------------------
(* Bounds of the model                                                     *)

MaxReads == 7       \* read() calls per reader
MaxCalls == 2       \* writer calls of a caller that may make any call at all
MaxChunk == 3       \* nodes in one chunk of the reader's input
MaxRoom == 2        \* tokens a stream of limited room takes before it fails
MaxBytes == 3       \* bytes a caller's input stream holds, or a bridge writes
MaxN == 2           \* bytes an engine asks its bridge for in one call

\* a chunk, or a buffer, that takes the whole of a document of the model
WholeDocument == 99

-----------------------------------------------------------------------------
(* Pointers and text                                                       *)

NULL == <<>>
Ptr(x) == <<x>>
Deref(p) == p[1]

RECURSIVE Flatten(_)
Flatten(ss) == IF ss = <<>> THEN <<>> ELSE Head(ss) \o Flatten(Tail(ss))

\* UTF-8 bytes of one code point
Utf8Of(cp) ==
    IF cp < 128 THEN <<cp>>
    ELSE IF cp < 2048 THEN <<192 + (cp \div 64), 128 + (cp % 64)>>
    ELSE IF cp < 65536 THEN
        <<224 + (cp \div 4096), 128 + ((cp \div 64) % 64), 128 + (cp % 64)>>
    ELSE <<240 + (cp \div 262144), 128 + ((cp \div 4096) % 64),
           128 + ((cp \div 64) % 64), 128 + (cp % 64)>>

\* UTF-16 code units of one code point
Utf16Of(cp) ==
    IF cp < 65536 THEN <<cp>>
    ELSE <<55296 + ((cp - 65536) \div 1024), 56320 + ((cp - 65536) % 1024)>>

Utf8(text) == Flatten([i \in 1..Len(text) |-> Utf8Of(text[i])])
Utf16(text) == Flatten([i \in 1..Len(text) |-> Utf16Of(text[i])])

IsCont(b) == b >= 128 /\ b < 192

\* code points of a UTF-8 byte string; -1 where the bytes are not UTF-8
RECURSIVE Utf8Decode(_)
Utf8Decode(b) ==
    IF b = <<>> THEN <<>>
    ELSE LET b1 == b[1] n == Len(b) IN
         IF b1 < 128 THEN <<b1>> \o Utf8Decode(Tail(b))
         ELSE IF b1 >= 192 /\ b1 < 224 /\ n >= 2 /\ IsCont(b[2]) THEN
            <<(b1 - 192) * 64 + (b[2] - 128)>> \o Utf8Decode(SubSeq(b, 3, n))
         ELSE IF b1 >= 224 /\ b1 < 240 /\ n >= 3 /\ IsCont(b[2]) /\ IsCont(b[3]) THEN
            <<(b1 - 224) * 4096 + (b[2] - 128) * 64 + (b[3] - 128)>>
                \o Utf8Decode(SubSeq(b, 4, n))
         ELSE IF b1 >= 240 /\ b1 < 248 /\ n >= 4
                 /\ IsCont(b[2]) /\ IsCont(b[3]) /\ IsCont(b[4]) THEN
            <<(b1 - 240) * 262144 + (b[2] - 128) * 4096
                + (b[3] - 128) * 64 + (b[4] - 128)>> \o Utf8Decode(SubSeq(b, 5, n))
         ELSE <<-1>>

\* code points of a UTF-16 unit string; -1 at an unpaired surrogate
RECURSIVE Utf16Decode(_)
Utf16Decode(u) ==
    IF u = <<>> THEN <<>>
    ELSE LET u1 == u[1] n == Len(u) IN
         IF u1 < 55296 \/ u1 >= 57344 THEN <<u1>> \o Utf16Decode(Tail(u))
         ELSE IF u1 < 56320 /\ n >= 2 /\ u[2] >= 56320 /\ u[2] < 57344 THEN
            <<65536 + (u1 - 55296) * 1024 + (u[2] - 56320)>>
                \o Utf16Decode(SubSeq(u, 3, n))
         ELSE <<-1>>

Valid(cps) == \A i \in 1..Len(cps) : cps[i] >= 0

\* xml::detail::utf8_to_utf16: null when wstring_convert throws std::range_error
utf8_to_utf16(str) ==
    LET cps == Utf8Decode(str) IN IF Valid(cps) THEN Ptr(Utf16(cps)) ELSE NULL

\* a conversion that takes every 16-bit unit for a code point of its own
utf16_to_utf8_ucs2(units) == Ptr(Utf8(units))

\* xml::detail::utf16_to_utf8 on [first, last)
utf16_to_utf8(units) ==
    LET cps == Utf16Decode(units) IN IF Valid(cps) THEN Ptr(Utf8(cps)) ELSE NULL

-----------------------------------------------------------------------------
(* HRESULTs: 32-bit signed values (LONG); 0xHHHHLLLL is HRESULT(HHHH, LLLL) *)

HRESULT(hi, lo) == IF hi >= 32768 THEN (hi - 65536) * 65536 + lo ELSE hi * 65536 + lo

S_OK == HRESULT(0, 0)
S_FALSE == HRESULT(0, 1)
E_PENDING == HRESULT(32768, 10)             \* 0x8000000A
E_OUTOFMEMORY == HRESULT(32775, 14)         \* 0x8007000E
STG_E_ACCESSDENIED == HRESULT(32771, 5)     \* 0x80030005

FAILED(hr) == hr < 0
Shr8(hr) == hr \div 256                     \* hr >> 8, arithmetic on a signed LONG

xmllite_misc_hresult_base == HRESULT(49164, 57373)      \* 0xC00CE01D
xmllite_reader_hresult_base == HRESULT(49164, 60928)    \* 0xC00CEE00
xmllite_writer_hresult_base == HRESULT(49164, 61184)    \* 0xC00CEF00

reader_errmsg_size == 114   \* size(reader_errmsg)
writer_errmsg_size == 13    \* size(writer_errmsg)
misc_errmsg_size == 3       \* size(misc_errmsg)

\* The difference of two LONGs converted to size_t: a negative difference wraps
\* to a value above every table size, so "index < size" is false for it and the
\* element it designates lies outside the table.
misc_errmsg_index(hr) == hr - xmllite_misc_hresult_base
reader_errmsg_index(hr) == hr - xmllite_reader_hresult_base
writer_errmsg_index(hr) == hr - xmllite_writer_hresult_base
SizeTLess(i, n) == i >= 0 /\ i < n

is_xmllite_misc_error(hr) ==
    /\ Shr8(hr) = Shr8(xmllite_misc_hresult_base)
    /\ SizeTLess(misc_errmsg_index(hr), misc_errmsg_size)

is_xmllite_reader_error(hr) ==
    \/ /\ Shr8(hr) = Shr8(xmllite_reader_hresult_base)
       /\ SizeTLess(reader_errmsg_index(hr), reader_errmsg_size)
    \/ is_xmllite_misc_error(hr)

is_xmllite_writer_error(hr) ==
    \/ /\ Shr8(hr) = Shr8(xmllite_writer_hresult_base)
       /\ SizeTLess(writer_errmsg_index(hr), writer_errmsg_size)
    \/ is_xmllite_misc_error(hr)

-----------------------------------------------------------------------------
(* The caller's streams and the stream bridges                             *)

STG_E_CANTSAVE == HRESULT(32771, 259)           \* 0x80030103

\* a std::istream: the bytes left to read, its state bits, whether the device
\* under it fails when it is read, whether it is still open
IStream(left, broken) ==
    [left |-> left, eof |-> FALSE, fail |-> FALSE, bad |-> FALSE, broken |-> broken,
     open |-> TRUE]

\* std::istream::read(buffer, n): the new state and gcount()
istream_read(s, n) ==
    IF s.eof \/ s.fail \/ s.bad THEN [stream |-> [s EXCEPT !.fail = TRUE], gcount |-> 0]
    ELSE IF s.broken THEN [stream |-> [s EXCEPT !.bad = TRUE], gcount |-> 0]
    ELSE IF s.left < n
    THEN [stream |-> [s EXCEPT !.left = 0, !.eof = TRUE, !.fail = TRUE], gcount |-> s.left]
    ELSE [stream |-> [s EXCEPT !.left = @ - n], gcount |-> n]

\* operator bool of a stream: !fail(), and fail() is failbit or badbit
istream_ok(s) == ~(s.fail \/ s.bad)

\* xml_reader_inputReadCallback(context, buffer, len)
xml_reader_inputReadCallback(s, len) ==
    LET r == istream_read(s, len)
        result == IF istream_ok(r.stream) THEN r.gcount ELSE -1
    IN  [stream |-> r.stream, ret |-> result, count |-> result]

\* com_istream::Read(pv, cb, pcbRead), pv and pcbRead not null, on a stream
\* that throws no exceptions
com_istream_Read(s, cb) ==
    LET r == istream_read(s, cb) IN
    [stream |-> r.stream, ret |-> IF r.gcount < cb THEN S_FALSE ELSE S_OK,
     count |-> r.gcount]

\* xml_reader_inputCloseCallback(context)
\* a close callback that closes the stream it is given
xml_reader_inputCloseCallback_closing(s) == [stream |-> [s EXCEPT !.open = FALSE], ret |-> 0]

xml_reader_inputCloseCallback(s) == [stream |-> s, ret |-> 0]

\* a std::ostream: whether it can tell its position, the bytes it still takes
\* (-1: any number), its failure state, whether it is still open
OStream(seekable, room) ==
    [seekable |-> seekable, room |-> room, failed |-> FALSE, open |-> TRUE]

\* std::ostream::tellp() with at bytes written so far: pos_type(-1) when the
\* stream has failed or cannot tell
ostream_tellp(o, at) == IF o.failed \/ ~o.seekable THEN -1 ELSE at

\* std::ostream::write(s, n): the new state and the bytes taken
ostream_write(o, n) ==
    IF o.failed THEN [stream |-> o, taken |-> 0]
    ELSE LET t == IF o.room < 0 \/ o.room >= n THEN n ELSE o.room IN
         [stream |-> [o EXCEPT !.room = IF @ < 0 THEN @ ELSE @ - t, !.failed = (t < n)],
          taken |-> t]

\* xml_writer_outputWriteCallback(context, buffer, len), the stream holding
\* at bytes already
xml_writer_outputWriteCallback(o, at, len) ==
    LET init_pos == ostream_tellp(o, at)
        w == ostream_write(o, len)
        result == IF ~w.stream.failed
                  THEN ostream_tellp(w.stream, at + w.taken) - init_pos
                  ELSE -1
    IN  [stream |-> w.stream, taken |-> w.taken, ret |-> result, count |-> result]

\* com_ostream::Write(pv, cb, pcbWritten), pv and pcbWritten not null, on a
\* stream that throws no exceptions; a negative count stands for the ULONG a
\* negative difference wraps to
com_ostream_Write(o, at, cb) ==
    LET init_pos == ostream_tellp(o, at)
        w == ostream_write(o, cb)
    IN  [stream |-> w.stream, taken |-> w.taken,
         ret |-> IF w.stream.failed THEN STG_E_CANTSAVE ELSE S_OK,
         count |-> ostream_tellp(w.stream, at + w.taken) - init_pos]

\* xml_writer_outputCloseCallback(context)
xml_writer_outputCloseCallback(o) == [stream |-> o, ret |-> 0]

\* a file, as the engine writes it itself
FileStream == OStream(TRUE, -1)

\* what a bridge callback reported: the callback, the length asked for, the
\* stream as it was before, the value returned and the count reported
Callback(op, len, before, r, count) ==
    [op |-> op, len |-> len, before |-> before, ret |-> r, count |-> count]
NoCallback == [op |-> "none"]

-----------------------------------------------------------------------------
(* Names                                                                   *)

tColon == <<58>>                                    \* ":"
tXmlns == <<120, 109, 108, 110, 115>>               \* "xmlns"
tHashText == <<35, 116, 101, 120, 116>>             \* "#text"
tHashComment == <<35, 99, 111, 109, 109, 101, 110, 116>>    \* "#comment"
tA == <<97>>                                        \* "a"
tB == <<98>>                                        \* "b"
tX == <<120>>                                       \* "x"
tY == <<121>>                                       \* "y"
tU == <<117>>                                       \* "u"
tP == <<112>>                                       \* "p"
tOne == <<49>>                                      \* "1"
tHi == <<104, 105>>                                 \* "hi"
tId == <<105, 100>>                                 \* "id"
tRoot == <<114, 111, 111, 116>>                     \* "root"
tNewline == <<10>>
tAccent == <<104, 233, 8364, 128512>>               \* "h", e-acute, euro sign, U+1F600
tXmlnsP == tXmlns \o tColon \o tP                \* "xmlns:p"
tPB == tP \o tColon \o tB                        \* "p:b"

\* position of the first colon of a name, 0 when it has none
ColonAt(q) ==
    IF \E i \in 1..Len(q) : q[i] = tColon[1]
    THEN CHOOSE i \in 1..Len(q) : q[i] = tColon[1] /\ \A j \in 1..(i - 1) : q[j] # tColon[1]
    ELSE 0

\* a name splits into prefix and local part only when both are non-empty
Splits(q) == ColonAt(q) > 1 /\ ColonAt(q) < Len(q)
PrefixOf(q) == IF Splits(q) THEN SubSeq(q, 1, ColonAt(q) - 1) ELSE <<>>
LocalOf(q) == IF Splits(q) THEN SubSeq(q, ColonAt(q) + 1, Len(q)) ELSE q
IsNsDecl(q) == q = tXmlns \/ PrefixOf(q) = tXmlns

-----------------------------------------------------------------------------
(* Documents, as the node stream a conforming parser makes of them         *)

Attr(q, v) == [qname |-> q, value |-> v]

Node(k, q, v, as, e, l, c) ==
    [kind |-> k, qname |-> q, value |-> v, attrs |-> as, empty |-> e,
     line |-> l, col |-> c]

tXml == <<120, 109, 108>>                           \* "xml"
tVersion == <<118, 101, 114, 115, 105, 111, 110>>   \* "version"
tOneDotZero == <<49, 46, 48>>                       \* "1.0"
XmlDecl(l, c) ==
    Node("xmldecl", tXml, Ptr(<<>>), <<Attr(tVersion, tOneDotZero)>>, FALSE, l, c)
Elem(q, as, l, c) == Node("element", q, NULL, as, FALSE, l, c)
EmptyElem(q, as, l, c) == Node("element", q, NULL, as, TRUE, l, c)
EndElem(q, as, l, c) == Node("end_element", q, NULL, as, FALSE, l, c)
Comment(t, l, c) == Node("comment", <<>>, Ptr(t), <<>>, FALSE, l, c)
Text(t, l, c) == Node("text", <<>>, Ptr(t), <<>>, FALSE, l, c)
Space(t, l, c) == Node("whitespace", <<>>, Ptr(t), <<>>, FALSE, l, c)

\* a well-formedness violation: the line of the offending token, the HRESULT
\* XmlLite reports for it and the number of the message libxml2 reports for it
DocErr(l, hr, m) == Ptr([tokLine |-> l, hr |-> hr, msg |-> m])

WC_E_ROOTELEMENT == HRESULT(49164, 60986)           \* 0xC00CEE3A
WC_E_ELEMENTMATCH == HRESULT(49164, 60987)          \* 0xC00CEE3B
SC_E_MAXELEMENTDEPTH == HRESULT(49164, 61057)       \* 0xC00CEE81
XML_E_INVALID_HEXIDECIMAL == HRESULT(49164, 57374)  \* 0xC00CE01E

AttrsXPY == <<Attr(tX, tOne), Attr(tXmlnsP, tU), Attr(tY, tAccent)>>

\* <a/>
DocEmptyTag == [nodes |-> <<EmptyElem(tA, <<>>, 1, 1)>>, err |-> NULL]

\* <a></a>
DocPair == [nodes |-> <<Elem(tA, <<>>, 1, 1), EndElem(tA, <<>>, 1, 4)>>, err |-> NULL]

\* <?xml version="1.0"?>
\* <a x="1" xmlns:p="u" y="h.."><!--hi-->
\* <p:b/>h..</a>
DocAttrs ==
    [nodes |-> <<XmlDecl(1, 1),
                 Elem(tA, AttrsXPY, 2, 1),
                 Comment(tHi, 2, 30),
                 Space(tNewline, 2, 39),
                 EmptyElem(tPB, <<>>, 3, 1),
                 Text(tAccent, 3, 7),
                 EndElem(tA, AttrsXPY, 3, 11)>>,
     err |-> NULL]

\* <a>
\* <b>
\* </a>
DocMismatch ==
    [nodes |-> <<Elem(tA, <<>>, 1, 1), Space(tNewline, 1, 4),
                 Elem(tB, <<>>, 2, 1), Space(tNewline, 2, 4)>>,
     err |-> DocErr(3, WC_E_ELEMENTMATCH, 76)]

\* <a>
\* &#xZZ;</a>
DocCharRef ==
    [nodes |-> <<Elem(tA, <<>>, 1, 1)>>,
     err |-> DocErr(2, XML_E_INVALID_HEXIDECIMAL, 6)]

\* <a/>
\* <b/>
DocTwoRoots ==
    [nodes |-> <<EmptyElem(tA, <<>>, 1, 1)>>,
     err |-> DocErr(2, WC_E_ROOTELEMENT, 5)]

\* <a>
\* <b/></a>   read with the engine's element depth limit set to 1
DocTooDeep ==
    [nodes |-> <<Elem(tA, <<>>, 1, 1), Space(tNewline, 1, 4)>>,
     err |-> DocErr(2, SC_E_MAXELEMENTDEPTH, 1)]

\* <a x="1">
\* </b>
DocAttrMismatch ==
    [nodes |-> <<Elem(tA, <<Attr(tX, tOne)>>, 1, 1), Space(tNewline, 1, 10)>>,
     err |-> DocErr(2, WC_E_ELEMENTMATCH, 76)]

SampleDocs ==
    {DocEmptyTag, DocPair, DocAttrs, DocMismatch, DocCharRef, DocTwoRoots, DocTooDeep,
     DocAttrMismatch}

RECURSIVE SelectKinds(_, _)
SelectKinds(ns, drop) ==
    IF ns = <<>> THEN <<>>
    ELSE IF Head(ns).kind \in drop THEN SelectKinds(Tail(ns), drop)
    ELSE <<Head(ns)>> \o SelectKinds(Tail(ns), drop)

\* xmlTextReader reports no node for the XML declaration; XmlLite reports one
EngineView(be, d) ==
    IF be = "libxml2" THEN [d EXCEPT !.nodes = SelectKinds(d.nodes, {"xmldecl"})] ELSE d

\* line of the start tag of the innermost element still open after the nodes
RECURSIVE OpenLines(_, _)
OpenLines(ns, stack) ==
    IF ns = <<>> THEN stack
    ELSE LET n == Head(ns) IN
         IF n.kind = "element" /\ ~n.empty THEN OpenLines(Tail(ns), <<n.line>> \o stack)
         ELSE IF n.kind = "end_element" /\ stack # <<>> THEN OpenLines(Tail(ns), Tail(stack))
         ELSE OpenLines(Tail(ns), stack)

-----------------------------------------------------------------------------
(* The reader engine: cursor and what the engine supplies at the cursor    *)

\* reader->node is null before the first read and after the end of input
HasNodeAt(p, m) == p > 0 /\ m \in {"interactive", "error"}
HasNode == HasNodeAt(pos, rmode)
CurNode == doc.nodes[pos]

\* node kinds whose attributes the engine lets the cursor move onto
NavKinds(be) ==
    IF be = "libxml2" THEN {"element", "end_element"} ELSE {"element", "xmldecl"}

RECURSIVE SelectAttrs(_, _)
SelectAttrs(as, ns) ==
    IF as = <<>> THEN <<>>
    ELSE IF IsNsDecl(Head(as).qname) = ns THEN <<Head(as)>> \o SelectAttrs(Tail(as), ns)
    ELSE SelectAttrs(Tail(as), ns)

\* xmlTextReader walks the namespace declarations (nsDef) before the other
\* attributes (properties); XmlLite walks the attributes as written
EngineAttrs(be, n) ==
    IF be = "libxml2" THEN SelectAttrs(n.attrs, TRUE) \o SelectAttrs(n.attrs, FALSE)
    ELSE n.attrs

AttrsAt(p, m) ==
    IF HasNodeAt(p, m) /\ doc.nodes[p].kind \in NavKinds(backend)
    THEN EngineAttrs(backend, doc.nodes[p]) ELSE <<>>
CurAttrs == AttrsAt(pos, rmode)

\* xmlReaderTypes / XmlNodeType
KindNumber(be, k) ==
    CASE k = "element" -> 1
      [] k = "text" -> 3
      [] k = "cdata" -> 4
      [] k = "pi" -> 7
      [] k = "comment" -> 8
      [] k = "doctype" -> 10
      [] k = "whitespace" -> IF be = "libxml2" THEN 14 ELSE 13
      [] k = "end_element" -> 15
      [] k = "xmldecl" -> 17

EngineNodeType(p, a, m) ==
    IF ~HasNodeAt(p, m) THEN 0
    ELSE IF a > 0 THEN 2
    ELSE KindNumber(backend, doc.nodes[p].kind)

\* Where in the text the attributes of a start tag begin: after "<", the
\* name and a blank, each attribute taking its name, "=", the quoted value and
\* a blank.
RECURSIVE AttrCol(_, _, _)
AttrCol(as, i, c) ==
    IF i <= 1 THEN c
    ELSE AttrCol(Tail(as), i - 1, c + Len(Head(as).qname) + Len(Head(as).value) + 4)

\* IXmlReader::GetLineNumber, GetLinePosition: where the node, or the
\* attribute, under the cursor starts; 0 with no node under the cursor
GetLineNumber(p, a, m) == IF HasNodeAt(p, m) THEN doc.nodes[p].line ELSE 0
GetLinePosition(p, a, m) ==
    IF ~HasNodeAt(p, m) THEN 0
    ELSE LET n == doc.nodes[p] IN
         IF a > 0 THEN AttrCol(n.attrs, a, n.col + Len(n.qname) + 2) ELSE n.col

\* where the text of a document ends, or where its violation stops the parser
EndOfInput(d) ==
    LET n == Len(d.nodes) IN
    IF d.err # NULL
    THEN <<Deref(d.err).tokLine,
           IF n > 0 /\ d.nodes[n].line = Deref(d.err).tokLine THEN d.nodes[n].col + 1 ELSE 1>>
    ELSE IF n = 0 THEN <<1, 1>>
    ELSE <<d.nodes[n].line, d.nodes[n].col + 1>>

\* The parser under xmlTextReader takes its input a chunk at a time and stands
\* at the end of what it has consumed: with the cursor on node p it has
\* consumed the chunks up to the one holding p.
Consumed(p, m) ==
    IF m \in {"eof", "error"} THEN Len(doc.nodes)
    ELSE IF (((p + chunk - 1) \div chunk) * chunk) < Len(doc.nodes)
    THEN ((p + chunk - 1) \div chunk) * chunk
    ELSE Len(doc.nodes)
ParserAt(p, m) ==
    IF p = 0 /\ m = "initial" THEN <<1, 1>>
    ELSE IF Consumed(p, m) < Len(doc.nodes)
    THEN <<doc.nodes[Consumed(p, m) + 1].line, doc.nodes[Consumed(p, m) + 1].col>>
    ELSE EndOfInput(doc)

\* a parser that counts lines from the start of the chunk it is in
xmlTextReaderGetParserLineNumber_inChunk(p, m) ==
    IF Consumed(p, m) = 0 THEN 1
    ELSE ParserAt(p, m)[1] - doc.nodes[Consumed(p, m)].line + 1

\* xmlTextReaderGetParserLineNumber, xmlTextReaderGetParserColumnNumber
xmlTextReaderGetParserLineNumber(p, m) == ParserAt(p, m)[1]
xmlTextReaderGetParserColumnNumber(p, m) == ParserAt(p, m)[2]

\* what line() and col() give with the cursor at p, a
line_at(p, a, m) ==
    IF backend = "xmllite" THEN GetLineNumber(p, a, m)
    ELSE xmlTextReaderGetParserLineNumber(p, m)
col_at(p, a, m) ==
    IF backend = "xmllite" THEN GetLinePosition(p, a, m)
    ELSE xmlTextReaderGetParserColumnNumber(p, m)

\* the qualified name the engine has for the cursor position: null when it has
\* none.  xmlTextReaderConstName names unnamed nodes "#text", "#comment";
\* IXmlReader::GetQualifiedName gives them the empty string.
EngineName(p, a, m) ==
    IF ~HasNodeAt(p, m) THEN (IF backend = "libxml2" THEN NULL ELSE Ptr(<<>>))
    ELSE IF a > 0 THEN Ptr(AttrsAt(p, m)[a].qname)
    ELSE LET n == doc.nodes[p] IN
         IF n.kind \in {"element", "end_element", "xmldecl", "pi"} THEN Ptr(n.qname)
         ELSE IF backend = "xmllite" THEN Ptr(<<>>)
         ELSE IF n.kind = "comment" THEN Ptr(tHashComment)
         ELSE Ptr(tHashText)

\* xmlTextReaderConstLocalName / IXmlReader::GetLocalName
EngineLocalName(p, a, m) ==
    LET q == EngineName(p, a, m) IN
    IF q = NULL THEN NULL ELSE Ptr(LocalOf(Deref(q)))

\* xmlTextReaderConstValue is null on nodes without a value;
\* IXmlReader::GetValue gives them the empty string
EngineValue(p, a, m) ==
    IF ~HasNodeAt(p, m) THEN (IF backend = "libxml2" THEN NULL ELSE Ptr(<<>>))
    ELSE IF a > 0 THEN Ptr(AttrsAt(p, m)[a].value)
    ELSE LET n == doc.nodes[p] IN
         IF n.value # NULL /\ n.kind # "xmldecl" THEN n.value
         ELSE IF backend = "xmllite" THEN Ptr(<<>>)
         ELSE NULL

\* xmlTextReaderIsEmptyElement: -1 without a node, else 0 or 1;
\* IXmlReader::IsEmptyElement: FALSE (0) or TRUE (1)
EngineIsEmpty(p, a, m) ==
    IF ~HasNodeAt(p, m) THEN (IF backend = "libxml2" THEN -1 ELSE 0)
    ELSE IF a = 0 /\ doc.nodes[p].kind = "element" /\ doc.nodes[p].empty THEN 1
    ELSE 0

\* the line of the innermost open element when the parser stops at the error,
\* which is what xmlTextReaderLocatorLineNumber reports while an element is
\* open; the line of the parser's input position otherwise
LocatorLine(d) ==
    LET open == OpenLines(d.nodes, <<>>) IN
    IF open # <<>> THEN Head(open) ELSE Deref(d.err).tokLine

\* an engine that starts over from the first node once it has reported the end
EngineAdvance_rewinding ==
    IF rmode = "eof" /\ Len(doc.nodes) > 0
    THEN {[kind |-> "node", pos |-> 1, mode |-> "interactive", hr |-> 0]}
    ELSE IF pos < Len(doc.nodes)
    THEN {[kind |-> "node", pos |-> pos + 1, mode |-> "interactive", hr |-> 0]}
    ELSE {[kind |-> "end", pos |-> pos, mode |-> "eof", hr |-> 0]}

\* The engine's advance operation (xmlTextReaderRead / IXmlReader::Read): the
\* steps it may take.  The parser runs ahead of the cursor by a buffer, so
\* xmlTextReaderRead may report a violation before delivering the nodes that
\* precede it.  An engine that has failed keeps failing.
EngineAdvance ==
    LET deliver == [kind |-> "node", pos |-> pos + 1, mode |-> "interactive", hr |-> 0]
        finish == [kind |-> "end", pos |-> pos, mode |-> "eof", hr |-> 0]
        fail == [kind |-> "fail", pos |-> pos, mode |-> "error", hr |-> 0]
        again == [kind |-> "failed", pos |-> pos, mode |-> "error", hr |-> 0]
    IN  CASE rmode = "eof" -> {finish}
          [] rmode = "error" -> {again}
          [] pos < Len(doc.nodes) ->
                {deliver} \cup (IF backend = "libxml2" /\ doc.err # NULL THEN {fail} ELSE {})
          [] OTHER -> IF doc.err = NULL THEN {finish} ELSE {fail}

\* failures IXmlReader reports that are not about the document: no data yet
\* on a non-blocking stream, the stream bridge failing, memory, and a code of
\* another component in a neighbouring numeric range (MSXML 0xC00CE00D)
ForeignHr == {E_PENDING, E_OUTOFMEMORY, STG_E_ACCESSDENIED, HRESULT(49164, 57357)}

-----------------------------------------------------------------------------
(* The reader facade: what each member does with what the engine returns   *)

Bool(b) == IF b THEN "true" ELSE "false"

\* the outcome of a facade call: a value returned (out "true", "false",
\* "string", "number") or an exception raised (out "parse_error" with its
\* line() and message number, "runtime_error", "range_error"), or the process
\* ending in undefined behaviour (out "crash")
Ret(op, out, str, num, line) ==
    [op |-> op, out |-> out, str |-> str, num |-> num, line |-> line]
NoRet == Ret("none", "none", <<>>, 0, 0)

\* what the engine handed to the facade: a status code and, for the name and
\* value accessors, the text supplied (null when none was supplied)
\* and the cursor (node, attribute, engine mode) the call was made at; calls
\* is the number of times the call invoked its engine operation, reported what
\* the engine passed to the error callback during the call, in order
Status(code, txt) ==
    [code |-> code, txt |-> txt, cur |-> <<pos, attr, rmode>>, calls |-> 1,
     reported |-> <<>>]
NoStatus ==
    [code |-> 0, txt |-> NULL, cur |-> <<0, 0, "initial">>, calls |-> 0,
     reported |-> <<>>]

\* xml_reader_errorFunc: the slot the callback's argument designates is
\* overwritten with the locator's line and the message
xml_reader_errorFunc(line, msg) == [line |-> line, msg |-> msg]

\* what the constructors register as the callback's argument with
\* xmlTextReaderSetErrorHandler: `this` (from a path), `&this->error` (from a
\* stream); the callback casts either to parse_error *.  error is the first
\* member of impl, which has no base and no virtual member: both designate it.
Contexts == {"this", "&this->error"}
FirstMember == "error"
Designated(ctx) == IF ctx = "this" THEN FirstMember ELSE "error"

\* a recoverable error the engine reports before it goes on: a prefix that
\* is bound to no namespace, on the first line
NamespaceUndefined == [line |-> 1, msg |-> 201]

\* what the engine reports, in order, during the call in which it stops at the
\* violation of d: the violation, after a recoverable error or not
Reports(d) ==
    LET final == [line |-> LocatorLine(d), msg |-> Deref(d.err).msg]
    IN  {<<final>>, <<NamespaceUndefined, final>>}

\* the callback invoked once for the first of the reports and never again
Callbacks_first(reports, slot) ==
    IF reports = <<>> THEN slot
    ELSE xml_reader_errorFunc(Head(reports).line, Head(reports).msg)

\* the error slot after the engine has invoked the callback for each report
RECURSIVE Callbacks(_, _)
Callbacks(reports, slot) ==
    IF reports = <<>> THEN slot
    ELSE Callbacks(Tail(reports),
                   xml_reader_errorFunc(Head(reports).line, Head(reports).msg))

\* xml::detail::throw_parse_error: the message is reader_errmsg[index]; an
\* index outside the table reads whatever lies there, so the call raises a
\* parse_error with an unspecified message (number -1) or ends the process
throw_parse_error(op, line, hr) ==
    LET i == reader_errmsg_index(hr) IN
    IF SizeTLess(i, reader_errmsg_size)
    THEN {Ret(op, "parse_error", <<>>, i, line)}
    ELSE {Ret(op, "parse_error", <<>>, -1, line), Ret(op, "crash", <<>>, 0, 0)}

\* xml::reader::read, XmlLite build
read_xmllite(hr, line) ==
    IF FAILED(hr) /\ is_xmllite_reader_error(hr)
    THEN throw_parse_error("read", line, hr)
    ELSE {Ret("read", Bool(hr = S_OK), <<>>, 0, 0)}

\* xml::reader::read, libxml2 build
read_libxml2(result, err) ==
    IF result < 0 THEN {Ret("read", "parse_error", <<>>, err.msg, err.line)}
    ELSE {Ret("read", Bool(result # 0), <<>>, 0, 0)}

\* xml::reader::move_to_first_attribute
move_to_first_attribute_xmllite(hr, line) ==
    IF FAILED(hr) /\ is_xmllite_reader_error(hr)
    THEN throw_parse_error("move_to_first_attribute", line, hr)
    ELSE {Ret("move_to_first_attribute", Bool(hr = S_OK), <<>>, 0, 0)}

move_to_first_attribute_libxml2(result, err) ==
    IF result < 0
    THEN {Ret("move_to_first_attribute", "parse_error", <<>>, err.msg, err.line)}
    ELSE {Ret("move_to_first_attribute", Bool(result # 0), <<>>, 0, 0)}

\* xml::reader::move_to_next_attribute
move_to_next_attribute_xmllite(hr, line) ==
    IF FAILED(hr) /\ is_xmllite_reader_error(hr)
    THEN throw_parse_error("move_to_next_attribute", line, hr)
    ELSE {Ret("move_to_next_attribute", Bool(hr = S_OK), <<>>, 0, 0)}

\* a facade that takes every non-negative result for a move
move_to_next_attribute_libxml2_nonneg(result, err) ==
    IF result < 0
    THEN {Ret("move_to_next_attribute", "parse_error", <<>>, err.msg, err.line)}
    ELSE {Ret("move_to_next_attribute", "true", <<>>, 0, 0)}

move_to_next_attribute_libxml2(result, err) ==
    IF result < 0
    THEN {Ret("move_to_next_attribute", "parse_error", <<>>, err.msg, err.line)}
    ELSE {Ret("move_to_next_attribute", Bool(result # 0), <<>>, 0, 0)}

\* xml::reader::empty_element
empty_element_xmllite(b) == Ret("empty_element", Bool(b = 1), <<>>, 0, 0)
\* a facade that takes every non-zero result for "empty"
empty_element_libxml2_nonzero(result) ==
    Ret("empty_element", Bool(result # 0), <<>>, 0, 0)
empty_element_libxml2(result) == Ret("empty_element", Bool(result = 1), <<>>, 0, 0)

\* xml::reader::node_type: static_cast<node_type_id> of the engine's number
node_type_of(type) == Ret("node_type", "number", <<>>, type, 0)

\* the name and value accessors, XmlLite build: hr and [name, name + length)
string_xmllite(op, hr, units) ==
    IF FAILED(hr) THEN Ret(op, "runtime_error", <<>>, 0, 0)
    ELSE LET s == utf16_to_utf8(units) IN
         IF s = NULL THEN Ret(op, "range_error", <<>>, 0, 0)
         ELSE Ret(op, "string", Deref(s), 0, 0)

\* the name and value accessors, libxml2 build: the xmlChar pointer
string_libxml2(op, p) ==
    IF p = NULL THEN Ret(op, "runtime_error", <<>>, 0, 0)
    ELSE Ret(op, "string", Deref(p), 0, 0)

local_name_xmllite(hr, units) == string_xmllite("local_name", hr, units)
local_name_libxml2(name) == string_libxml2("local_name", name)
qualified_name_xmllite(hr, units) == string_xmllite("qualified_name", hr, units)
qualified_name_libxml2(name) == string_libxml2("qualified_name", name)
value_xmllite(hr, units) == string_xmllite("value", hr, units)
value_libxml2(val) == string_libxml2("value", val)


\* the engine returning one of them from Read; the cursor stays where it is
ForeignSteps ==
    IF backend = "xmllite" /\ rmode \in {"initial", "interactive"}
    THEN {[kind |-> "foreign", pos |-> pos, mode |-> rmode, hr |-> f] : f \in ForeignHr}
    ELSE {}

\* the status the facade receives for a step: the int of xmlTextReaderRead
\* (1 node read, 0 no more nodes, -1 error) or the HRESULT of IXmlReader::Read
StepCode(e) ==
    CASE e.kind = "node" -> IF backend = "libxml2" THEN 1 ELSE S_OK
      [] e.kind = "end" -> IF backend = "libxml2" THEN 0 ELSE S_FALSE
      [] e.kind \in {"fail", "failed"} ->
            IF backend = "libxml2" THEN -1 ELSE Deref(doc.err).hr
      [] e.kind = "foreign" -> e.hr

\* IXmlReader::GetLineNumber when the facade translates the failure
StepLine(e) ==
    IF e.kind \in {"fail", "failed"} THEN Deref(doc.err).tokLine
    ELSE IF HasNodeAt(e.pos, e.mode) THEN doc.nodes[e.pos].line
    ELSE 0

\* The engine's attribute moves: onto the first attribute, and onto the next
\* (from the node itself: onto the first)
EngineMoveFirst ==
    IF ~HasNode THEN [kind |-> "nonode", attr |-> attr]
    ELSE IF CurAttrs = <<>> THEN [kind |-> "none", attr |-> attr]
    ELSE [kind |-> "moved", attr |-> 1]

EngineMoveNext ==
    IF ~HasNode THEN [kind |-> "nonode", attr |-> attr]
    ELSE IF attr = 0 THEN EngineMoveFirst
    ELSE IF attr < Len(CurAttrs) THEN [kind |-> "moved", attr |-> attr + 1]
    ELSE [kind |-> "none", attr |-> attr]

\* xmlTextReaderMoveTo*Attribute: 1 moved, 0 nothing to move to, -1 no node;
\* IXmlReader::MoveTo*Attribute: S_OK moved, S_FALSE otherwise
MoveCode(m) ==
    CASE m.kind = "moved" -> IF backend = "libxml2" THEN 1 ELSE S_OK
      [] m.kind = "none" -> IF backend = "libxml2" THEN 0 ELSE S_FALSE
      [] m.kind = "nonode" -> IF backend = "libxml2" THEN -1 ELSE S_FALSE

\* failures IXmlReader reports from a name or value accessor
AccessorFailHr == {E_OUTOFMEMORY, E_PENDING}

-----------------------------------------------------------------------------
(* The reader's operations                                                 *)

Reading == phase = "read"

\* record of the attribute walk on the current node: the attributes the moves
\* landed on, whether a move has reported that none is left, and whether the
\* walk was started over after that
NoWalk == [vis |-> <<>>, ended |-> FALSE, again |-> FALSE]

\* An advance takes the cursor off the attribute it stood on; xmlTextReaderRead
\* does so even when it then fails to parse.
OffAttribute(e) ==
    \/ e.kind \in {"node", "end"}
    \/ backend = "libxml2" /\ e.kind \in {"fail", "failed"}

\* a read() that asks the engine once more when the engine reports a failure
Tries(e) == IF e.kind \in {"fail", "failed", "foreign"} THEN 2 ELSE 1
read_retrying ==
    /\ Reading
    /\ nRead < MaxReads
    /\ nRead' = nRead + 1
    /\ \E e \in EngineAdvance \cup ForeignSteps :
        \E reports \in (IF backend = "libxml2" /\ e.kind = "fail"
                         THEN Reports(doc) ELSE {<<>>}) :
        LET st == StepCode(e)
            slot == Callbacks(reports, error)
            outs == IF backend = "libxml2" THEN read_libxml2(st, slot)
                    ELSE read_xmllite(st, StepLine(e))
        IN  \E o \in outs :
                /\ ret' = o
                /\ status' = [Status(st, NULL) EXCEPT !.calls = Tries(e),
                                                       !.reported = reports]
                /\ engReads' = engReads + Tries(e)
                /\ error' = slot
                /\ pos' = e.pos
                /\ rmode' = e.mode
                /\ attr' = IF OffAttribute(e) THEN 0 ELSE attr
                /\ walk' = IF OffAttribute(e) THEN NoWalk ELSE walk
                /\ seen' = IF o.out = "true"
                           THEN Append(seen, [pos |-> e.pos, fromAttr |-> attr > 0,
                                              line |-> line_at(e.pos, 0, e.mode),
                                              col |-> col_at(e.pos, 0, e.mode)])
                           ELSE seen
                /\ exhausted' = (exhausted \/ (e.kind = "end" /\ o.out = "false"))
                /\ phase' = IF o.out = "crash" THEN "crashed" ELSE phase
    /\ UNCHANGED <<env, bvars, doc, wvars>>

read ==
    /\ Reading
    /\ nRead < MaxReads
    /\ nRead' = nRead + 1
    /\ engReads' = engReads + 1
    /\ \E e \in EngineAdvance \cup ForeignSteps :
        \E reports \in (IF backend = "libxml2" /\ e.kind = "fail"
                         THEN Reports(doc) ELSE {<<>>}) :
        LET st == StepCode(e)
            slot == Callbacks(reports, error)
            outs == IF backend = "libxml2" THEN read_libxml2(st, slot)
                    ELSE read_xmllite(st, StepLine(e))
        IN  \E o \in outs :
                /\ ret' = o
                /\ status' = [Status(st, NULL) EXCEPT !.reported = reports]
                /\ error' = slot
                /\ pos' = e.pos
                /\ rmode' = e.mode
                /\ attr' = IF OffAttribute(e) THEN 0 ELSE attr
                /\ walk' = IF OffAttribute(e) THEN NoWalk ELSE walk
                /\ seen' = IF o.out = "true"
                           THEN Append(seen, [pos |-> e.pos, fromAttr |-> attr > 0,
                                              line |-> line_at(e.pos, 0, e.mode),
                                              col |-> col_at(e.pos, 0, e.mode)])
                           ELSE seen
                /\ exhausted' = (exhausted \/ (e.kind = "end" /\ o.out = "false"))
                /\ phase' = IF o.out = "crash" THEN "crashed" ELSE phase
    /\ UNCHANGED <<env, bvars, doc, wvars>>

\* the attribute under the cursor, for the record of the walk
Landed(a) == IF a \in 1..Len(CurAttrs) THEN CurAttrs[a] ELSE Attr(<<>>, <<>>)

move_to_first_attribute ==
    /\ Reading
    /\ LET m == EngineMoveFirst
           st == MoveCode(m)
           outs == IF backend = "libxml2" THEN move_to_first_attribute_libxml2(st, error)
                   ELSE move_to_first_attribute_xmllite(st, StepLine([kind |-> "move", pos |-> pos, mode |-> rmode]))
       IN  \E o \in outs :
                /\ ret' = o
                /\ status' = Status(st, NULL)
                /\ attr' = m.attr
                /\ walk' = [vis |-> IF o.out = "true" THEN <<Landed(m.attr)>> ELSE <<>>,
                            ended |-> FALSE, again |-> walk.ended]
                /\ phase' = IF o.out = "crash" THEN "crashed" ELSE phase
    /\ UNCHANGED <<env, bvars, doc, pos, rmode, error, seen, exhausted, nRead, engReads,
                   wvars>>

\* a facade whose move to the next attribute advances the engine instead
move_to_next_attribute_advancing ==
    /\ Reading
    /\ engReads < MaxReads
    /\ engReads' = engReads + 1
    /\ pos' = IF pos < Len(doc.nodes) THEN pos + 1 ELSE pos
    /\ rmode' = IF pos < Len(doc.nodes) THEN "interactive" ELSE "eof"
    /\ attr' = 0
    /\ walk' = NoWalk
    /\ ret' = Ret("move_to_next_attribute", Bool(pos < Len(doc.nodes)), <<>>, 0, 0)
    /\ status' = Status(0, NULL)
    /\ UNCHANGED <<env, bvars, phase, doc, error, seen, exhausted, nRead, wvars>>

move_to_next_attribute ==
    /\ Reading
    /\ LET m == EngineMoveNext
           st == MoveCode(m)
           outs == IF backend = "libxml2" THEN move_to_next_attribute_libxml2(st, error)
                   ELSE move_to_next_attribute_xmllite(st, StepLine([kind |-> "move", pos |-> pos, mode |-> rmode]))
       IN  \E o \in outs :
                /\ ret' = o
                /\ status' = Status(st, NULL)
                /\ attr' = m.attr
                /\ walk' = IF o.out = "true"
                           THEN [walk EXCEPT !.vis = Append(@, Landed(m.attr))]
                           ELSE [walk EXCEPT !.ended = (o.out = "false")]
                /\ phase' = IF o.out = "crash" THEN "crashed" ELSE phase
    /\ UNCHANGED <<env, bvars, doc, pos, rmode, error, seen, exhausted, nRead, engReads,
                   wvars>>

\* an accessor leaves everything but its own result alone
Observed == <<env, bvars, phase, doc, pos, attr, rmode, error, seen, exhausted, walk,
              nRead, engReads, wvars>>

\* a name or value accessor: t is the text the engine has, null if none
StringAccessor(t, onLibxml2(_), onXmlLite(_, _)) ==
    /\ Reading
    /\ IF backend = "libxml2"
       THEN /\ status' = Status(0, t)
            /\ ret' = onLibxml2(IF t = NULL THEN NULL ELSE Ptr(Utf8(Deref(t))))
       ELSE \E hr \in {S_OK} \cup AccessorFailHr :
            /\ status' = Status(hr, IF FAILED(hr) THEN NULL ELSE t)
            /\ ret' = onXmlLite(hr, IF FAILED(hr) THEN <<>> ELSE Utf16(Deref(t)))
    /\ UNCHANGED Observed

local_name ==
    StringAccessor(EngineLocalName(pos, attr, rmode), local_name_libxml2, local_name_xmllite)

qualified_name ==
    StringAccessor(EngineName(pos, attr, rmode), qualified_name_libxml2,
                   qualified_name_xmllite)

value ==
    StringAccessor(EngineValue(pos, attr, rmode), value_libxml2, value_xmllite)

empty_element ==
    /\ Reading
    /\ LET e == EngineIsEmpty(pos, attr, rmode) IN
        /\ status' = Status(e, NULL)
        /\ ret' = IF backend = "libxml2" THEN empty_element_libxml2(e)
                  ELSE empty_element_xmllite(e)
    /\ UNCHANGED Observed

node_type ==
    /\ Reading
    /\ LET t == EngineNodeType(pos, attr, rmode) IN
        /\ status' = Status(t, NULL)
        /\ ret' = node_type_of(t)
    /\ UNCHANGED Observed

line ==
    /\ Reading
    /\ status' = Status(0, NULL)
    /\ ret' = Ret("line", "number", <<>>, line_at(pos, attr, rmode), 0)
    /\ UNCHANGED Observed

col ==
    /\ Reading
    /\ status' = Status(0, NULL)
    /\ ret' = Ret("col", "number", <<>>, col_at(pos, attr, rmode), 0)
    /\ UNCHANGED Observed

-----------------------------------------------------------------------------
(* The writer engines.  Output is a sequence of tokens: the XML            *)
(* declaration, a start tag with its attributes, an end tag, a comment, a  *)
(* line break.                                                             *)

\* the XML declaration with its encoding and its standalone value (null:
\* not written)
DeclTok(enc, sa) == [t |-> "decl", enc |-> enc, sa |-> sa]
\* closed = FALSE: the text stops inside the tag, before "/>" or ">"
StagTok(q, as, empty, closed) ==
    [t |-> "stag", qname |-> q, attrs |-> as, empty |-> empty, closed |-> closed]
EtagTok(q) == [t |-> "etag", qname |-> q]
CommentTok(text) == [t |-> "comment", text |-> text]
NlTok == [t |-> "nl"]

\* an open element on the engine's stack: open while its start tag can still
\* take attributes; decls are its namespace declarations (IXmlWriter)
WNode(q, as, open, decls) == [qname |-> q, attrs |-> as, open |-> open, decls |-> decls]

\* what an engine call gives back: its status, the engine's new state and
\* the tokens it adds to the output buffer
WStep(code, nodes, ns, state, out) ==
    [code |-> code, nodes |-> nodes, ns |-> ns, state |-> state, out |-> out]
WRefused(code) == WStep(code, wnodes, wns, wstate, <<>>)

\* prefix ":" name when a prefix is given, with p null for no prefix
QName(p, name) == IF p = NULL THEN name ELSE Deref(p) \o tColon \o name
\* "xmlns" or "xmlns:" prefix
DeclName(p) == IF p = NULL THEN tXmlns ELSE tXmlns \o tColon \o Deref(p)

\* xmlTextWriter: the start tag on top of the stack is closed with ">" before
\* content or a child goes out; the waiting declarations go out with it
Lx_CloseTag ==
    IF wnodes # <<>> /\ Head(wnodes).open
    THEN [nodes |-> <<[Head(wnodes) EXCEPT !.open = FALSE]>> \o Tail(wnodes),
          ns |-> <<>>,
          out |-> <<StagTok(Head(wnodes).qname, Head(wnodes).attrs \o wns, FALSE, TRUE)>>]
    ELSE [nodes |-> wnodes, ns |-> wns, out |-> <<>>]

tUTF8 == <<85, 84, 70, 45, 56>>                     \* "UTF-8"
tutf8 == <<117, 116, 102, 45, 56>>                  \* "utf-8"

\* ASCII letters in upper case
ToUpper(text) ==
    [i \in 1..Len(text) |-> IF text[i] \in 97..122 THEN text[i] - 32 ELSE text[i]]

\* xmlFindCharEncodingHandler: the name of the encoder found for an encoding
\* name, whatever its case; null when there is none
xmlFindCharEncodingHandler(name) == IF ToUpper(name) = tUTF8 THEN Ptr(tUTF8) ELSE NULL

\* xmlTextWriterStartDocument(writer, NULL, encoding, standalone): the
\* declaration names the encoder found for the encoding
xmlTextWriterStartDocument(encoding, sa) ==
    IF wnodes # <<>> THEN WRefused(-1)
    ELSE WStep(1, wnodes, wns, wstate,
               <<DeclTok(xmlFindCharEncodingHandler(encoding), sa), NlTok>>)

\* xmlTextWriterStartElementNS(writer, prefix, name, namespaceURI)
xmlTextWriterStartElementNS(prefix, name, uri) ==
    LET c == Lx_CloseTag
        decl == IF uri = NULL THEN <<>> ELSE <<Attr(DeclName(prefix), Deref(uri))>>
    IN  WStep(1, <<WNode(QName(prefix, name), <<>>, TRUE, <<>>)>> \o c.nodes,
              decl \o c.ns, wstate, c.out)

\* xmlTextWriterEndElement(writer): "/>" when the start tag is still open
Lx_EndElement(nodes, ns) ==
    LET top == Head(nodes) IN
    [nodes |-> Tail(nodes),
     ns |-> IF top.open THEN <<>> ELSE ns,
     out |-> IF top.open THEN <<StagTok(top.qname, top.attrs \o ns, TRUE, TRUE)>>
             ELSE <<EtagTok(top.qname)>>]

\* an engine for which ending an element with none open writes nothing
xmlTextWriterEndElement_lenient ==
    IF wnodes = <<>> THEN WRefused(0)
    ELSE LET e == Lx_EndElement(wnodes, wns) IN WStep(1, e.nodes, e.ns, wstate, e.out)

xmlTextWriterEndElement ==
    IF wnodes = <<>> THEN WRefused(-1)
    ELSE LET e == Lx_EndElement(wnodes, wns) IN WStep(1, e.nodes, e.ns, wstate, e.out)

\* xmlTextWriterWriteAttributeNS(writer, prefix, name, namespaceURI, content):
\* the declaration is dealt with first, then the attribute is started
xmlTextWriterWriteAttributeNS(prefix, name, uri, content) ==
    LET dn == DeclName(prefix)
        same == {i \in 1..Len(wns) : wns[i].qname = dn}
        clash == uri # NULL /\ \E i \in same : wns[i].value # Deref(uri)
        ns2 == IF uri # NULL /\ same = {} THEN <<Attr(dn, Deref(uri))>> \o wns ELSE wns
    IN  IF clash THEN WRefused(-1)
        ELSE IF wnodes = <<>> \/ ~Head(wnodes).open THEN WStep(-1, wnodes, ns2, wstate, <<>>)
        ELSE WStep(1,
                   <<[Head(wnodes) EXCEPT !.attrs = Append(@, Attr(QName(prefix, name), content))]>>
                       \o Tail(wnodes),
                   ns2, wstate, <<>>)

\* xmlTextWriterWriteComment(writer, content)
xmlTextWriterWriteComment(content) ==
    LET c == Lx_CloseTag IN WStep(1, c.nodes, c.ns, wstate, c.out \o <<CommentTok(content)>>)

\* xmlTextWriterEndDocument(writer): every open element is ended, a line break
\* is written (the facade then has the buffer flushed)
RECURSIVE Lx_EndAll(_, _)
Lx_EndAll(nodes, ns) ==
    IF nodes = <<>> THEN <<>>
    ELSE LET e == Lx_EndElement(nodes, ns) IN e.out \o Lx_EndAll(e.nodes, e.ns)

xmlTextWriterEndDocument ==
    WStep(1, <<>>, IF wnodes # <<>> /\ Head(wnodes).open THEN <<>> ELSE wns, wstate,
          Lx_EndAll(wnodes, wns) \o <<NlTok>>)

\* what is in the buffer of an engine that is let go of: the text written so
\* far, a start tag still open being cut before its end
Unfinished ==
    IF wnodes # <<>> /\ Head(wnodes).open
    THEN <<StagTok(Head(wnodes).qname, Head(wnodes).attrs, FALSE, FALSE)>>
    ELSE <<>>

\* ---- IXmlWriter.  Strings are never null here: the facade passes c_str().

WR_E_NSPREFIXDECLARED == HRESULT(49164, 61186)          \* 0xC00CEF02
WR_E_NSPREFIXWITHEMPTYNSURI == HRESULT(49164, 61187)    \* 0xC00CEF03
WR_E_DUPLICATEATTRIBUTE == HRESULT(49164, 61188)        \* 0xC00CEF04
WR_E_INVALIDACTION == HRESULT(49164, 61195)             \* 0xC00CEF0B

OptPrefix(prefix) == IF prefix = <<>> THEN NULL ELSE Ptr(prefix)

\* the namespace a declaration name is bound to in the open elements, null
\* when it is bound nowhere
RECURSIVE BoundTo(_, _)
BoundTo(dn, nodes) ==
    IF nodes = <<>> THEN NULL
    ELSE LET here == {i \in 1..Len(Head(nodes).decls) : Head(nodes).decls[i].qname = dn}
         IN  IF here # {} THEN Ptr(Head(nodes).decls[CHOOSE i \in here : TRUE].value)
             ELSE BoundTo(dn, Tail(nodes))

\* the declaration a name in namespace uri needs on the element being opened
NeededDecl(dn, uri, nodes) ==
    LET b == BoundTo(dn, nodes) IN
    IF b = Ptr(uri) \/ (b = NULL /\ uri = <<>>) THEN <<>> ELSE <<Attr(dn, uri)>>

Xl_CloseTag ==
    IF wnodes # <<>> /\ Head(wnodes).open
    THEN [nodes |-> <<[Head(wnodes) EXCEPT !.open = FALSE]>> \o Tail(wnodes),
          out |-> <<StagTok(Head(wnodes).qname, Head(wnodes).attrs \o Head(wnodes).decls,
                            FALSE, TRUE)>>]
    ELSE [nodes |-> wnodes, out |-> <<>>]

\* the code page the writer's output is created with, and its name
utf8_code_page == 65001
CodePageName(cp) == IF cp = 65001 THEN Ptr(tutf8) ELSE NULL

\* IXmlWriter::WriteStartDocument(standalone): the declaration names the
\* encoding of the output
WriteStartDocument(sa) ==
    IF wstate # "start" THEN WRefused(WR_E_INVALIDACTION)
    ELSE WStep(S_OK, wnodes, wns, "prolog", <<DeclTok(CodePageName(utf8_code_page), sa)>>)

\* IXmlWriter::WriteStartElement(prefix, localName, namespaceUri)
WriteStartElement(prefix, name, uri) ==
    IF wstate = "epilog" THEN WRefused(WR_E_INVALIDACTION)
    ELSE IF prefix # <<>> /\ uri = <<>> THEN WRefused(WR_E_NSPREFIXWITHEMPTYNSURI)
    ELSE LET c == Xl_CloseTag
             p == OptPrefix(prefix)
         IN  WStep(S_OK,
                   <<WNode(QName(p, name), <<>>, TRUE, NeededDecl(DeclName(p), uri, c.nodes))>>
                       \o c.nodes,
                   wns, "content", c.out)

\* IXmlWriter::WriteAttributeString(prefix, localName, namespaceUri, value);
\* an attribute without a prefix is in no namespace
WriteAttributeString(prefix, name, uri, content) ==
    IF wnodes = <<>> \/ ~Head(wnodes).open THEN WRefused(WR_E_INVALIDACTION)
    ELSE IF prefix # <<>> /\ uri = <<>> THEN WRefused(WR_E_NSPREFIXWITHEMPTYNSURI)
    ELSE LET top == Head(wnodes)
             p == OptPrefix(prefix)
             q == QName(p, name)
             dn == DeclName(p)
             decl == IF p = NULL THEN <<>> ELSE NeededDecl(dn, uri, wnodes)
         IN  IF \E i \in 1..Len(top.attrs) : top.attrs[i].qname = q
             THEN WRefused(WR_E_DUPLICATEATTRIBUTE)
             ELSE IF decl # <<>> /\ \E i \in 1..Len(top.decls) : top.decls[i].qname = dn
             THEN WRefused(WR_E_NSPREFIXDECLARED)
             ELSE WStep(S_OK,
                        <<[top EXCEPT !.attrs = Append(@, Attr(q, content)),
                                      !.decls = @ \o decl]>> \o Tail(wnodes),
                        wns, wstate, <<>>)

\* IXmlWriter::WriteComment(comment)
WriteComment(content) ==
    LET c == Xl_CloseTag IN
    WStep(S_OK, c.nodes, wns, IF wstate = "start" THEN "prolog" ELSE wstate,
          c.out \o <<CommentTok(content)>>)

\* IXmlWriter::WriteEndElement(): <a /> when the start tag is still open
WriteEndElement ==
    IF wnodes = <<>> THEN WRefused(WR_E_INVALIDACTION)
    ELSE LET top == Head(wnodes) IN
         WStep(S_OK, Tail(wnodes), wns, IF Len(wnodes) = 1 THEN "epilog" ELSE wstate,
               IF top.open THEN <<StagTok(top.qname, top.attrs \o top.decls, TRUE, TRUE)>>
               ELSE <<EtagTok(top.qname)>>)

-----------------------------------------------------------------------------
(* From the bytes written to the node stream a parser makes of them        *)

MX_E_INPUTEND == HRESULT(49164, 60929)              \* 0xC00CEE01
WC_E_UNIQUEATTRIBUTE == HRESULT(49164, 60988)       \* 0xC00CEE3C
WC_E_TEXTXMLDECL == HRESULT(49164, 60989)           \* 0xC00CEE3D

\* the output encoder of IXmlWriterOutput (code page UTF-8): UTF-16 to bytes
EncodeText(units) == Utf8(Utf16Decode(units))
EncodeAttrs(as) == [i \in 1..Len(as) |-> Attr(EncodeText(as[i].qname), EncodeText(as[i].value))]
EncodeTok(tok) ==
    CASE tok.t = "stag" ->
            StagTok(EncodeText(tok.qname), EncodeAttrs(tok.attrs), tok.empty, tok.closed)
      [] tok.t = "etag" -> EtagTok(EncodeText(tok.qname))
      [] tok.t = "comment" -> CommentTok(EncodeText(tok.text))
      [] OTHER -> tok
Encode(toks) == [i \in 1..Len(toks) |-> EncodeTok(toks[i])]

\* the bytes an engine hands to the destination
Delivered(be, toks) == IF be = "xmllite" THEN Encode(toks) ELSE toks

DecodeAttrs(as) ==
    [i \in 1..Len(as) |-> Attr(Utf8Decode(as[i].qname), Utf8Decode(as[i].value))]

\* number of characters of a token
RECURSIVE AttrsLen(_)
AttrsLen(as) ==
    IF as = <<>> THEN 0
    ELSE 4 + Len(Head(as).qname) + Len(Head(as).value) + AttrsLen(Tail(as))
TokLen(tok) ==
    CASE tok.t = "decl" -> 38 + (IF tok.sa = NULL THEN 0 ELSE 14 + Len(Deref(tok.sa)))
      [] tok.t = "stag" -> 1 + Len(tok.qname) + AttrsLen(tok.attrs)
                           + (IF ~tok.closed THEN 0 ELSE IF tok.empty THEN 2 ELSE 1)
      [] tok.t = "etag" -> 3 + Len(tok.qname)
      [] tok.t = "comment" -> 7 + Len(tok.text)
      [] OTHER -> 0

DistinctNames(as) == \A i, j \in 1..Len(as) : as[i].qname = as[j].qname => i = j

ParseStart ==
    [nodes |-> <<>>, stack |-> <<>>, root |-> FALSE, line |-> 1, col |-> 1,
     first |-> TRUE, err |-> NULL]

\* one token further; st.stack holds the start tags still open
ParseTok(st, tok) ==
    LET fail(hr, m) == [st EXCEPT !.err = DocErr(st.line, hr, m)]
        on == [st EXCEPT !.col = @ + TokLen(tok), !.first = FALSE]
        put(n) == [on EXCEPT !.nodes = Append(@, n)]
    IN  CASE tok.t = "nl" -> [st EXCEPT !.line = @ + 1, !.col = 1, !.first = FALSE]
          [] tok.t = "decl" ->
                IF st.first THEN put(XmlDecl(st.line, st.col)) ELSE fail(WC_E_TEXTXMLDECL, 64)
          [] tok.t = "comment" -> put(Comment(Utf8Decode(tok.text), st.line, st.col))
          [] tok.t = "stag" ->
                LET q == Utf8Decode(tok.qname)
                    as == DecodeAttrs(tok.attrs)
                IN  IF st.stack = <<>> /\ st.root THEN fail(WC_E_ROOTELEMENT, 5)
                    ELSE IF ~DistinctNames(as) THEN fail(WC_E_UNIQUEATTRIBUTE, 42)
                    ELSE IF ~tok.closed THEN fail(MX_E_INPUTEND, 77)
                    ELSE IF tok.empty
                    THEN [put(EmptyElem(q, as, st.line, st.col)) EXCEPT !.root = TRUE]
                    ELSE [put(Elem(q, as, st.line, st.col)) EXCEPT
                             !.root = TRUE,
                             !.stack = <<[qname |-> q, attrs |-> as]>> \o @]
          [] tok.t = "etag" ->
                IF st.stack = <<>> \/ Head(st.stack).qname # Utf8Decode(tok.qname)
                THEN fail(WC_E_ELEMENTMATCH, 76)
                ELSE [put(EndElem(Head(st.stack).qname, Head(st.stack).attrs,
                                  st.line, st.col)) EXCEPT !.stack = Tail(@)]

RECURSIVE ParseFrom(_, _)
ParseFrom(st, toks) ==
    IF st.err # NULL THEN st
    ELSE IF toks # <<>> THEN ParseFrom(ParseTok(st, Head(toks)), Tail(toks))
    ELSE IF st.stack # <<>> THEN [st EXCEPT !.err = DocErr(st.line, MX_E_INPUTEND, 77)]
    ELSE IF ~st.root THEN [st EXCEPT !.err = DocErr(st.line, MX_E_INPUTEND, 4)]
    ELSE st

Parse(toks) ==
    LET st == ParseFrom(ParseStart, toks) IN [nodes |-> st.nodes, err |-> st.err]

-----------------------------------------------------------------------------
(* The writer facade                                                       *)

\* a writer call and how it ended for the caller: out is "ok" (returned),
\* "write_error" (num: the place of its message in writer_errmsg, 0 with
\* libxml2), "range_error" (a string that is not UTF-8) or "crash"
\* calls is the number of times the call invoked its engine operation
WCall(op, args, out, num, code, calls) ==
    [op |-> op, args |-> args, out |-> out, num |-> num, code |-> code, calls |-> calls]

\* xml::detail::throw_write_error: the message is writer_errmsg[index]
throw_write_error(hr) ==
    LET i == writer_errmsg_index(hr) IN
    IF SizeTLess(i, writer_errmsg_size)
    THEN {[out |-> "write_error", num |-> i]}
    ELSE {[out |-> "write_error", num |-> -1], [out |-> "crash", num |-> 0]}

\* what every writer member does with the HRESULT of its IXmlWriter call
write_xmllite(hr) ==
    IF FAILED(hr) /\ is_xmllite_writer_error(hr) THEN throw_write_error(hr)
    ELSE {[out |-> "ok", num |-> 0]}

\* what every writer member does with the int of its xmlTextWriter call
write_libxml2(bytes_written) ==
    IF bytes_written = -1 THEN {[out |-> "write_error", num |-> 0]}
    ELSE {[out |-> "ok", num |-> 0]}

\* xml::writer::standalone, and the string start_document makes of it
standalone_omit == 0
standalone_yes == 1
standalone_no == 2
tYes == <<121, 101, 115>>                           \* "yes"
tNo == <<110, 111>>                                 \* "no"
\* a start_document that takes every value but omit for yes
sa_str_truthy(sa) == IF sa = standalone_omit THEN NULL ELSE Ptr(tYes)

sa_str(sa) ==
    IF sa = standalone_yes THEN Ptr(tYes)
    ELSE IF sa = standalone_no THEN Ptr(tNo)
    ELSE NULL

\* static const char encoding[] = "utf-8"
encoding == tutf8

\* static_cast<XmlStandalone>(sa), as IXmlWriter writes it
XmlStandalone(sa) ==
    CASE sa = 1 -> Ptr(tYes)
      [] sa = 2 -> Ptr(tNo)
      [] OTHER -> NULL

\* the caller is about to make the call op
Writing(op) == phase = "write" /\ wlive /\ todo # <<>> /\ Head(todo).op = op

\* the write callback of the build
WriteCallback(o, at, len) ==
    IF backend = "libxml2" THEN xml_writer_outputWriteCallback(o, at, len)
    ELSE com_ostream_Write(o, at, len)

\* The engine hands its buffer to the bridge (xmlOutputBufferFlush; the
\* output of IXmlWriter).  xmlOutputBuffer drops from its buffer as many bytes
\* as the callback says it wrote; IXmlWriter goes by the HRESULT.
EngineFlush(buf) ==
    LET c == WriteCallback(out_, Len(wsink), Len(buf))
        ok == c.ret >= 0
        gone == IF backend = "xmllite" THEN (IF ok THEN Len(buf) ELSE 0)
                ELSE IF c.ret > 0 THEN c.ret ELSE 0
    IN  [ok |-> ok, code |-> c.ret, buf |-> SubSeq(buf, gone + 1, Len(buf)),
         sent |-> SubSeq(buf, 1, c.taken), stream |-> c.stream]

\* an engine step that leaves the buffer and the destination alone
Kept(w) == [code |-> w.code, nodes |-> w.nodes, ns |-> w.ns, state |-> w.state,
            out |-> <<>>, buf |-> wbuf, sent |-> <<>>, stream |-> out_, calls |-> 1]

\* The engine call as the facade sees it: step w on the document, and the
\* output of the step buffered, or handed to the bridge when the call forces
\* it or the buffer is over its capacity.  A failure of the bridge is the
\* failure of the call.  An xmlTextWriter whose output has failed refuses
\* every call.
Out(w, force) ==
    IF backend = "libxml2" /\ out_.failed THEN Kept(WRefused(-1))
    ELSE IF w.code < 0 THEN Kept(w)
    ELSE IF force \/ Len(wbuf \o w.out) > wcap
    THEN LET f == EngineFlush(wbuf \o w.out) IN
         [code |-> IF f.ok THEN w.code ELSE f.code, nodes |-> w.nodes, ns |-> w.ns,
          state |-> w.state, out |-> w.out, buf |-> f.buf, sent |-> f.sent,
          stream |-> f.stream, calls |-> 1]
    ELSE [Kept(w) EXCEPT !.out = w.out, !.buf = wbuf \o w.out]

\* the engine call has gone as w and the facade call ends as o
WriterDoes(op, args, w, o) ==
    /\ wnodes' = w.nodes
    /\ wns' = w.ns
    /\ wstate' = w.state
    /\ wbuf' = w.buf
    /\ wsink' = wsink \o Delivered(backend, w.sent)
    /\ wemit' = wemit \o Delivered(backend, w.out)
    /\ out_' = w.stream
    /\ wbefore' = <<wnodes, wns>>
    /\ wlog' = Append(wlog, WCall(op, args, o.out, o.num, w.code, w.calls))
    /\ todo' = Tail(todo)
    /\ phase' = IF o.out = "crash" THEN "crashed" ELSE phase
    /\ UNCHANGED <<env, bvars, wlive, rvars>>

\* a call that raises std::range_error in utf8_to_utf16, before the engine
\* is reached
WriterThrows(op, args) ==
    /\ wlog' = Append(wlog, WCall(op, args, "range_error", 0, 0, 0))
    /\ todo' = Tail(todo)
    /\ wbefore' = <<wnodes, wns>>
    /\ UNCHANGED <<env, bvars, phase, wlive, wnodes, wns, wstate, wbuf, wsink, wemit,
                   out_, rvars>>

\* the arguments as IXmlWriter gets them: null when one is not UTF-8
Wide(strs) ==
    IF \E i \in 1..Len(strs) : utf8_to_utf16(strs[i]) = NULL THEN NULL
    ELSE Ptr([i \in 1..Len(strs) |-> Deref(utf8_to_utf16(strs[i]))])

\* the calls a caller makes, with the texts passed
Call(op, args) == [op |-> op, args |-> args]
StartDocument(sa) == Call("start_document", <<sa>>)
EndDocument == Call("end_document", <<>>)
StartElement(prefix, name, uri) == Call("start_element", <<prefix, name, uri>>)
EndElement == Call("end_element", <<>>)
Attribute(prefix, name, uri, content) == Call("attribute", <<prefix, name, uri, content>>)
WriteCommentCall(text) == Call("comment", <<text>>)

Standalones == {standalone_omit, standalone_yes, standalone_no}
Calls ==
    {StartDocument(sa) : sa \in Standalones}
        \cup {EndDocument, EndElement, WriteCommentCall(tHi),
              StartElement(<<>>, tRoot, <<>>), StartElement(tP, tB, tU),
              Attribute(<<>>, tId, <<>>, tOne), Attribute(tP, tX, tU, tAccent)}

\* every program of at most MaxCalls calls
ShortPrograms == UNION {[1..n -> Calls] : n \in 0..MaxCalls}

\* root with id="1" holding a comment
Scenario ==
    <<StartDocument(standalone_omit), StartElement(<<>>, tRoot, <<>>),
      Attribute(<<>>, tId, <<>>, tOne), WriteCommentCall(tHi), EndElement, EndDocument>>

\* prefixed elements, one inside the other, the inner one without content
Nested ==
    <<StartDocument(standalone_yes), StartElement(tP, tB, tU),
      Attribute(tP, tX, tU, tAccent), StartElement(tP, tB, tU), EndElement,
      WriteCommentCall(tHi), EndElement, EndDocument>>

\* elements left open when the writer is let go of
LeftOpen ==
    <<StartDocument(standalone_no), StartElement(tP, tB, tU), WriteCommentCall(tHi),
      StartElement(tP, tB, tU), Attribute(tP, tX, tU, tAccent)>>

Programs == ShortPrograms \cup {Scenario, Nested, LeftOpen}
\* the std::string arguments: UTF-8
Strings(args) == [i \in 1..Len(args) |-> Utf8(args[i])]

\* a call that does not reach the engine
NoStep == WStep(0, wnodes, wns, wstate, <<>>)
Returned == [out |-> "ok", num |-> 0]

\* (the engine's step e and the call's outcome w are each worked out once)
start_document ==
    /\ Writing("start_document")
    /\ LET sa == Head(todo).args[1] IN
        IF backend = "libxml2"
        THEN \E e \in {xmlTextWriterStartDocument(encoding, sa_str(sa))} :
             \E w \in {Out(e, FALSE)} :
             \E o \in write_libxml2(w.code) : WriterDoes("start_document", <<sa>>, w, o)
        ELSE \E e \in {WriteStartDocument(XmlStandalone(sa))} :
             \E w \in {Out(e, FALSE)} :
             \E o \in write_xmllite(w.code) : WriterDoes("start_document", <<sa>>, w, o)

\* with XmlLite the member does nothing; with libxml2 the buffer is flushed
end_document ==
    /\ Writing("end_document")
    /\ IF backend = "libxml2"
       THEN \E e \in {xmlTextWriterEndDocument} :
             \E w \in {Out(e, TRUE)} :
             \E o \in write_libxml2(w.code) : WriterDoes("end_document", <<>>, w, o)
       ELSE WriterDoes("end_document", <<>>, [Kept(NoStep) EXCEPT !.calls = 0], Returned)

start_element ==
    /\ Writing("start_element")
    /\ LET a == Head(todo).args
           strs == Strings(a)
       IN
        IF backend = "libxml2"
        THEN \E e \in {xmlTextWriterStartElementNS(Ptr(strs[1]), strs[2], Ptr(strs[3]))} :
             \E w \in {Out(e, FALSE)} :
             \E o \in write_libxml2(w.code) : WriterDoes("start_element", a, w, o)
        ELSE IF Wide(strs) = NULL THEN WriterThrows("start_element", a)
        ELSE \E ws \in {Deref(Wide(strs))} :
             \E e \in {WriteStartElement(ws[1], ws[2], ws[3])} :
             \E w \in {Out(e, FALSE)} :
             \E o \in write_xmllite(w.code) : WriterDoes("start_element", a, w, o)

end_element ==
    /\ Writing("end_element")
    /\ IF backend = "libxml2"
       THEN \E e \in {xmlTextWriterEndElement} :
             \E w \in {Out(e, FALSE)} :
             \E o \in write_libxml2(w.code) : WriterDoes("end_element", <<>>, w, o)
       ELSE \E e \in {WriteEndElement} :
             \E w \in {Out(e, FALSE)} :
             \E o \in write_xmllite(w.code) : WriterDoes("end_element", <<>>, w, o)

attribute ==
    /\ Writing("attribute")
    /\ LET a == Head(todo).args
           strs == Strings(a)
       IN
        IF backend = "libxml2"
        THEN \E e \in {xmlTextWriterWriteAttributeNS(Ptr(strs[1]), strs[2], Ptr(strs[3]), strs[4])} :
             \E w \in {Out(e, FALSE)} :
             \E o \in write_libxml2(w.code) : WriterDoes("attribute", a, w, o)
        ELSE IF Wide(strs) = NULL THEN WriterThrows("attribute", a)
        ELSE \E ws \in {Deref(Wide(strs))} :
             \E e \in {WriteAttributeString(ws[1], ws[2], ws[3], ws[4])} :
             \E w \in {Out(e, FALSE)} :
             \E o \in write_xmllite(w.code) : WriterDoes("attribute", a, w, o)

comment ==
    /\ Writing("comment")
    /\ LET a == Head(todo).args
           strs == Strings(a)
       IN
        IF backend = "libxml2"
        THEN \E e \in {xmlTextWriterWriteComment(strs[1])} :
             \E w \in {Out(e, FALSE)} :
             \E o \in write_libxml2(w.code) : WriterDoes("comment", a, w, o)
        ELSE IF Wide(strs) = NULL THEN WriterThrows("comment", a)
        ELSE \E e \in {WriteComment(Deref(Wide(strs))[1])} :
             \E w \in {Out(e, FALSE)} :
             \E o \in write_xmllite(w.code) : WriterDoes("comment", a, w, o)

\* xml::writer::impl::~impl: xmlFreeTextWriter / Release hand the buffer to the
\* destination as it is; no element is closed
writer_destroy ==
    /\ phase = "write"
    /\ todo = <<>>
    /\ wlive
    /\ wlive' = FALSE
    /\ LET f == EngineFlush(wbuf \o Unfinished) IN
        /\ wsink' = wsink \o Delivered(backend, f.sent)
        /\ out_' = f.stream
    /\ wemit' = wemit \o Delivered(backend, Unfinished)
    /\ wbuf' = <<>>
    /\ wnodes' = <<>>
    /\ wns' = <<>>
    /\ UNCHANGED <<env, bvars, phase, todo, wstate, wlog, wbefore, rvars>>

\* xml::reader::reader(filename) on what has reached the destination
reader_open ==
    /\ phase = "write"
    /\ todo = <<>>
    /\ phase' = "read"
    /\ doc' = EngineView(backend, Parse(wsink))
    /\ UNCHANGED <<env, bvars, wvars, pos, attr, rmode, error, ret, status, seen, exhausted,
                   walk, nRead, engReads>>

-----------------------------------------------------------------------------
(* The reader over the sample documents                                    *)

Backends == {"libxml2", "xmllite"}

\* xml::reader::impl::impl: the error slot starts as parse_error{0, ""}
NoError == [line |-> 0, msg |-> 0]

NoWriter ==
    /\ todo = <<>>
    /\ wlive = FALSE
    /\ wnodes = <<>>
    /\ wns = <<>>
    /\ wstate = "start"
    /\ wbuf = <<>>
    /\ wsink = <<>>
    /\ wlog = <<>>
    /\ wemit = <<>>
    /\ out_ = FileStream
    /\ wbefore = <<<<>>, <<>>>>

\* no stream-backed object is looked at on its own
NoBridge ==
    /\ in_ = IStream(0, FALSE)
    /\ cbret = NoCallback
    /\ obj = "none"

\* the native objects of one construction.  stream, mid and engine are the
\* reference counts of the IStream (the bridge, or the file stream), of the
\* IXmlReaderInput / IXmlWriterOutput and of the IXmlReader / IXmlWriter; with
\* libxml2 engine is 1 while the xmlTextReader / xmlTextWriter exists.  holds
\* is what the engine was given by SetInput / SetOutput, deleted the number of
\* times the stream object was deleted, freed the number of times ~impl ran,
\* given how the steps of the construction went, declared the encoding the
\* document names for itself.
Native(kind, from) ==
    [kind |-> kind, from |-> from, stream |-> 0, mid |-> 0, engine |-> 0,
     holds |-> "none", deleted |-> 0, freed |-> 0, iid |-> "none",
     encoding |-> "none", declared |-> "none", given |-> "none",
     thrown |-> "none", step |-> "none", cause |-> "none"]
NoNative == Native("none", "none")

\* no facade object is constructed, moved or destroyed
NoObjects ==
    /\ made = NoNative
    /\ engines = <<>>
    /\ owner = <<>>

FreshReader ==
    /\ pos = 0
    /\ attr = 0
    /\ rmode = "initial"
    /\ error = NoError
    /\ ret = NoRet
    /\ status = NoStatus
    /\ seen = <<>>
    /\ exhausted = FALSE
    /\ walk = NoWalk
    /\ nRead = 0
    /\ engReads = 0

Init ==
    /\ backend \in Backends
    /\ chunk \in (IF backend = "libxml2" THEN 1..MaxChunk ELSE {1})
    /\ wcap = WholeDocument
    /\ phase = "read"
    /\ NoWriter
    /\ NoBridge
    /\ \E d \in SampleDocs : doc = EngineView(backend, d)
    /\ FreshReader
    /\ NoObjects

Next ==
    \/ read
    \/ move_to_first_attribute
    \/ move_to_next_attribute
    \/ local_name
    \/ qualified_name
    \/ value
    \/ empty_element
    \/ node_type
    \/ line
    \/ col

Spec == Init /\ [][Next]_vars

-----------------------------------------------------------------------------
(* Writing a document and reading it back                                  *)

InitRT ==
    /\ backend \in Backends
    /\ chunk = WholeDocument
    /\ wcap = WholeDocument
    /\ NoBridge
    /\ out_ = FileStream
    /\ wbefore = <<<<>>, <<>>>>
    /\ phase = "write"
    /\ todo \in Programs
    /\ wlive = TRUE
    /\ wnodes = <<>>
    /\ wns = <<>>
    /\ wstate = "start"
    /\ wbuf = <<>>
    /\ wsink = <<>>
    /\ wlog = <<>>
    /\ wemit = <<>>
    /\ doc = [nodes |-> <<>>, err |-> NULL]
    /\ FreshReader
    /\ NoObjects

NextRT ==
    \/ start_document
    \/ end_document
    \/ start_element
    \/ end_element
    \/ attribute
    \/ comment
    \/ writer_destroy
    \/ reader_open
    \/ read
    \/ move_to_first_attribute
    \/ move_to_next_attribute
    \/ local_name
    \/ qualified_name
    \/ value
    \/ empty_element
    \/ node_type

SpecRT == InitRT /\ [][NextRT]_vars

-----------------------------------------------------------------------------
(* Writing to a caller's stream                                            *)

\* the streams a caller hands to xml::writer::writer(std::ostream &): one that
\* takes everything and tells its position (std::ostringstream, std::ofstream),
\* one that takes everything and has no position to tell (tellp() is -1), and
\* ones that take so many tokens and then fail
Sinks == {OStream(TRUE, -1), OStream(FALSE, -1)} \cup {OStream(TRUE, r) : r \in 0..MaxRoom}

\* two elements open when the document is ended, and a call after that
Deep ==
    <<StartDocument(standalone_omit), StartElement(<<>>, tRoot, <<>>),
      StartElement(tP, tB, tU), EndDocument, WriteCommentCall(tHi)>>

\* an element ended once more than it was started
OneTooMany == <<StartElement(<<>>, tRoot, <<>>), EndElement, EndElement>>

InitW ==
    /\ backend \in Backends
    /\ chunk = WholeDocument
    /\ wcap \in {0, WholeDocument}
    /\ NoBridge
    /\ out_ \in Sinks
    /\ wbefore = <<<<>>, <<>>>>
    /\ phase = "write"
    /\ todo \in Programs \cup {Deep, OneTooMany}
    /\ wlive = TRUE
    /\ wnodes = <<>>
    /\ wns = <<>>
    /\ wstate = "start"
    /\ wbuf = <<>>
    /\ wsink = <<>>
    /\ wlog = <<>>
    /\ wemit = <<>>
    /\ doc = [nodes |-> <<>>, err |-> NULL]
    /\ FreshReader
    /\ NoObjects

NextW ==
    \/ start_document
    \/ end_document
    \/ start_element
    \/ end_element
    \/ attribute
    \/ comment
    \/ writer_destroy

SpecW == InitW /\ [][NextW]_vars

-----------------------------------------------------------------------------
(* The stream bridges on their own: an object is constructed on a caller's *)
(* stream, its engine calls the bridge, the object is destroyed            *)

\* the streams a caller hands to xml::reader::reader(std::istream &): so many
\* bytes left to read, on a device that works or on one that fails
Sources == {IStream(k, b) : k \in 0..MaxBytes, b \in BOOLEAN}

\* the bytes a bridge has written, as the destination holds them
Bytes(n) == [i \in 1..n |-> 0]

\* xml::reader::impl::impl(std::istream &).  When the engine cannot be made
\* the constructor throws; xmlReaderForIO has by then closed the input it was
\* given, unless it failed before it took it.
construct_reader ==
    /\ obj = "none"
    /\ \/ obj' = "reader" /\ cbret' = NoCallback /\ in_' = in_
       \/ /\ obj' = "failed"
          /\ \/ cbret' = NoCallback /\ in_' = in_
             \/ /\ backend = "libxml2"
                /\ LET c == xml_reader_inputCloseCallback(in_) IN
                    /\ cbret' = Callback("close", 0, in_, c.ret, 0)
                    /\ in_' = c.stream
    /\ UNCHANGED <<env, phase, wvars, rvars>>

\* xml::writer::impl::impl(std::ostream &).  When xmlNewTextWriter fails the
\* output buffer is closed on the way out of the constructor.
construct_writer ==
    /\ obj = "none"
    /\ \/ obj' = "writer" /\ cbret' = NoCallback /\ out_' = out_
       \/ /\ obj' = "failed"
          /\ \/ cbret' = NoCallback /\ out_' = out_
             \/ /\ backend = "libxml2"
                /\ LET c == xml_writer_outputCloseCallback(out_) IN
                    /\ cbret' = Callback("close", 0, out_, c.ret, 0)
                    /\ out_' = c.stream
    /\ UNCHANGED <<env, phase, in_, todo, wlive, wnodes, wns, wstate,
                   wbuf, wsink, wlog, wemit, wbefore, rvars>>

\* the engine asks the read side of the bridge for len bytes
bridge_read ==
    /\ obj = "reader"
    /\ \E len \in 1..MaxN :
        LET c == IF backend = "libxml2" THEN xml_reader_inputReadCallback(in_, len)
                 ELSE com_istream_Read(in_, len)
        IN  /\ cbret' = Callback("read", len, in_, c.ret, c.count)
            /\ in_' = c.stream
    /\ UNCHANGED <<env, obj, phase, wvars, rvars>>

\* the engine hands len bytes to the write side of the bridge
bridge_write ==
    /\ obj = "writer"
    /\ Len(wsink) < MaxBytes
    /\ \E len \in 1..MaxN :
        LET c == WriteCallback(out_, Len(wsink), len) IN
            /\ cbret' = Callback("write", len, out_, c.ret, c.count)
            /\ out_' = c.stream
            /\ wsink' = wsink \o Bytes(c.taken)
    /\ UNCHANGED <<env, phase, in_, obj, todo, wlive, wnodes, wns,
                   wstate, wbuf, wlog, wemit, wbefore, rvars>>

\* xml::reader::impl::~impl, xml::writer::impl::~impl: xmlFreeTextReader and
\* xmlFreeTextWriter close the input or output they were given; Release of
\* the XmlLite objects lets go of com_istream or com_ostream, which holds
\* nothing but a reference to the stream
destroy ==
    /\ obj \in {"reader", "writer"}
    /\ obj' = "destroyed"
    /\ IF obj = "reader"
       THEN LET c == xml_reader_inputCloseCallback(in_) IN
            /\ cbret' = IF backend = "libxml2" THEN Callback("close", 0, in_, c.ret, 0)
                         ELSE Callback("release", 0, in_, 0, 0)
            /\ in_' = IF backend = "libxml2" THEN c.stream ELSE in_
            /\ out_' = out_
       ELSE LET c == xml_writer_outputCloseCallback(out_) IN
            /\ cbret' = IF backend = "libxml2" THEN Callback("close", 0, out_, c.ret, 0)
                         ELSE Callback("release", 0, out_, 0, 0)
            /\ out_' = IF backend = "libxml2" THEN c.stream ELSE out_
            /\ in_' = in_
    /\ UNCHANGED <<env, phase, todo, wlive, wnodes, wns, wstate, wbuf,
                   wsink, wlog, wemit, wbefore, rvars>>

InitBridge ==
    /\ backend \in Backends
    /\ chunk = WholeDocument
    /\ wcap = WholeDocument
    /\ in_ \in Sources
    /\ out_ \in Sinks
    /\ cbret = NoCallback
    /\ obj = "none"
    /\ phase = "bridge"
    /\ todo = <<>>
    /\ wlive = FALSE
    /\ wnodes = <<>>
    /\ wns = <<>>
    /\ wstate = "start"
    /\ wbuf = <<>>
    /\ wsink = <<>>
    /\ wlog = <<>>
    /\ wemit = <<>>
    /\ wbefore = <<<<>>, <<>>>>
    /\ doc = [nodes |-> <<>>, err |-> NULL]
    /\ FreshReader
    /\ NoObjects

NextBridge ==
    \/ construct_reader
    \/ construct_writer
    \/ bridge_read
    \/ bridge_write
    \/ destroy

SpecBridge == InitBridge /\ [][NextBridge]_vars

-----------------------------------------------------------------------------
(* Properties of the reader                                                *)

LastCall(op) == ret.op = op

\* line() and col() as they stood after the successful advances so far
Positions == [i \in 1..Len(seen) |-> <<seen[i].line, seen[i].col>>]
\* the cursor is where the last successful advance left it
AsAdvanced ==
    /\ seen # <<>> /\ rmode = "interactive" /\ attr = 0
    /\ pos = seen[Len(seen)].pos
\* line() and col() give what Positions records
PositionsAreObserved ==
    /\ (LastCall("line") /\ AsAdvanced) => ret.num = Positions[Len(seen)][1]
    /\ (LastCall("col") /\ AsAdvanced) => ret.num = Positions[Len(seen)][2]

\* C11, as stated: in a well-formed document line() never decreases from one
\* successful advance() to the next, and col() never decreases either.
C11_LineAndColNonDecreasing ==
    doc.err = NULL =>
        \A i \in 1..(Len(seen) - 1) :
            /\ Positions[i][1] <= Positions[i + 1][1]
            /\ Positions[i][2] <= Positions[i + 1][2]

\* C11, amended: in a well-formed document line() never decreases from one
\* successful advance() to the next, and col() never decreases while line()
\* stays the same; col() starts again on every new line.
C11_PositionNonDecreasing ==
    /\ PositionsAreObserved
    /\ doc.err = NULL =>
            \A i \in 1..(Len(seen) - 1) :
                \/ Positions[i][1] < Positions[i + 1][1]
                \/ /\ Positions[i][1] = Positions[i + 1][1]
                   /\ Positions[i][2] <= Positions[i + 1][2]

\* col() has been asked after an advance to a new line, where it is smaller
\* than it was after the advance before
C11_Witness ==
    /\ LastCall("col") /\ AsAdvanced /\ doc.err = NULL
    /\ Len(seen) >= 2
    /\ Positions[Len(seen) - 1][1] < Positions[Len(seen)][1]
    /\ ret.num < Positions[Len(seen) - 1][2]

\* the engine's advance status says a node was read
NodeWasRead(st) == IF backend = "libxml2" THEN st = 1 ELSE st = S_OK
\* the engine's advance status is a failure of the facade's own error set
OwnFailure(st) ==
    IF backend = "libxml2" THEN st < 0 ELSE FAILED(st) /\ is_xmllite_reader_error(st)


\* C3: the outcome of read() is a function of the engine's status only: it
\* returns true exactly when the engine reports that a node was read, returns
\* false when the engine reports the end of the input or a failure outside
\* the facade's own error set, raises a parse error exactly when the engine
\* reports a failure inside that set, and never raises for a success status.
C3_ReadFollowsStatus ==
    LastCall("read") =>
        /\ ret.out \in {"true", "false", "parse_error"}
        /\ (ret.out = "true") <=> NodeWasRead(status.code)
        /\ (ret.out = "parse_error") <=> OwnFailure(status.code)

\* C4: once read() has returned false because the input is exhausted, every
\* later read() returns false as well: no node is reported after the end.
C4_ExhaustionIsIdempotent ==
    (exhausted /\ LastCall("read")) => ret.out = "false"

\* a read() made after exhaustion, with other calls in between, returned false
C4_Witness ==
    /\ exhausted
    /\ LastCall("read")
    /\ status.cur[3] = "eof"
    /\ ret.out = "false"
    /\ Len(seen) >= 2

\* the document under the reader violates well-formedness (a depth limit of
\* the engine is not such a violation)
Malformed == doc.err # NULL /\ Deref(doc.err).hr # SC_E_MAXELEMENTDEPTH

\* C5: on input that violates well-formedness, the read() call during which
\* the engine detects the violation raises a parse error whose line() is the
\* line of the offending token, on either engine.
C5_ParseErrorAtTokenLine ==
    (LastCall("read") /\ Malformed /\ rmode = "error") =>
        /\ ret.out = "parse_error"
        /\ ret.line = Deref(doc.err).tokLine

OnElement == HasNode /\ CurNode.kind = "element"

\* the walk over an element whose attributes, in the order given, are as
AttributeWalkOver(as) ==
    OnElement =>
        /\ Len(walk.vis) <= Len(as)
        /\ walk.vis = SubSeq(as, 1, Len(walk.vis))
        /\ walk.ended => Len(walk.vis) = Len(as)
        /\ LastCall("move_to_first_attribute") =>
              /\ ret.out = Bool(Len(as) >= 1)
              /\ walk.vis = IF as = <<>> THEN <<>> ELSE <<as[1]>>
        /\ LastCall("move_to_next_attribute") =>
              /\ ret.out \in {"true", "false"}
              /\ (ret.out = "false") => walk.ended

C7_WalkLeavesStreamAlone ==
    /\ engReads = nRead
    /\ \A i \in 1..Len(seen) : seen[i].pos = i

\* a read() made from an attribute position reported the next node
C7_Witness ==
    /\ \E i \in 2..Len(seen) : seen[i].fromAttr
    /\ engReads >= 2

\* C8: qualified_name() never raises when the engine supplies no name.
C8_QualifiedNameNeverRaises ==
    LastCall("qualified_name") => ret.out = "string"

\* C9: local_name() and value() raise a runtime error exactly when the engine
\* supplies no string; otherwise they return the engine's string (as UTF-8),
\* and in both cases the cursor stays where it was.
C9_NameAndValue ==
    (LastCall("local_name") \/ LastCall("value")) =>
        /\ (ret.out = "runtime_error") <=> (status.txt = NULL)
        /\ status.txt # NULL =>
              /\ ret.out = "string"
              /\ ret.str = Utf8(Deref(status.txt))
        /\ <<pos, attr, rmode>> = status.cur

\* value() returned a text outside ASCII, byte for byte in UTF-8
C9_Witness ==
    /\ LastCall("value")
    /\ status.txt = Ptr(tAccent)
    /\ ret.out = "string"
    /\ Len(ret.str) = 10

\* C10: empty_element() returns true exactly when the engine reports the
\* current element as empty (<a/> and not <a></a>); it returns false, and
\* never raises, when the engine reports -1 or is not on an element.
C10_EmptyElement ==
    LastCall("empty_element") =>
        /\ ret.out = Bool(status.code = 1)
        /\ ret.out = Bool(OnElement /\ attr = 0 /\ CurNode.empty)

\* empty_element() returned true on <a/>
C10_Witness ==
    /\ LastCall("empty_element")
    /\ ret.out = "true"
    /\ doc = DocEmptyTag
    /\ pos = 1

-----------------------------------------------------------------------------
(* Properties of writing and reading back                                  *)

\* the calls the caller has made
CallsMade == [i \in 1..Len(wlog) |-> Call(wlog[i].op, wlog[i].args)]

OpsOf(cs) == [i \in 1..Len(cs) |-> cs[i].op]
Count(ops, op, i) == Cardinality({j \in 1..i : ops[j] = op})
Depth(ops, i) == Count(ops, "start_element", i) - Count(ops, "end_element", i)

\* start_document, then one root element with correctly nested
\* start_element/end_element pairs, attributes only in start tags, comments,
\* then end_document
WellFormedCalls(cs) ==
    LET ops == OpsOf(cs)
        n == Len(cs)
    IN  /\ n >= 4
        /\ ops[1] = "start_document"
        /\ ops[n] = "end_document"
        /\ \A i \in 2..(n - 1) : ops[i] \notin {"start_document", "end_document"}
        /\ \A i \in 1..n : Depth(ops, i) >= 0
        /\ Depth(ops, n) = 0
        /\ Count(ops, "start_element", n) >= 1
        /\ \A i \in 1..n : (ops[i] = "start_element" /\ Depth(ops, i) = 1)
                              => Count(ops, "start_element", i) = 1
        /\ \A i \in 1..n : ops[i] = "attribute"
                              => ops[i - 1] \in {"start_element", "attribute"}

\* the nodes a sequence of calls emits, in order: type, local name, qualified
\* name.  An element ended before it got any content is emitted as an
\* empty-element tag: one node stands for its start and its end.
RECURSIVE Emitted(_, _, _)
Emitted(cs, stack, fresh) ==
    IF cs = <<>> THEN <<>>
    ELSE LET c == Head(cs) IN
         CASE c.op = "start_element" ->
                LET e == [type |-> 1, local |-> c.args[2],
                          qname |-> QName(OptPrefix(c.args[1]), c.args[2])]
                IN  <<e>> \o Emitted(Tail(cs), <<e>> \o stack, TRUE)
           [] c.op = "comment" ->
                <<[type |-> 8, local |-> <<>>, qname |-> <<>>]>>
                    \o Emitted(Tail(cs), stack, FALSE)
           [] c.op = "end_element" ->
                (IF fresh THEN <<>> ELSE <<[Head(stack) EXCEPT !.type = 15]>>)
                    \o Emitted(Tail(cs), Tail(stack), FALSE)
           [] OTHER -> Emitted(Tail(cs), stack, fresh)

\* the reader is on what a writer, since destroyed, has written
ReadingBack == phase \in {"read", "crashed"} /\ ~wlive

\* the engine has supplied the string the last accessor call asked for
Supplied == status.txt # NULL

\* nodes the engine reports ahead of the first one written: the declaration
DeclNodes == IF doc.nodes # <<>> /\ doc.nodes[1].kind = "xmldecl" THEN 1 ELSE 0

\* C1: round trip.  For every well-formed sequence of writer calls, reading
\* the bytes written with successive read() calls yields the element, comment
\* and end_element nodes, with their names, in exactly the order emitted.
C1_RoundTrip ==
    (ReadingBack /\ WellFormedCalls(CallsMade)) =>
        LET exp == Emitted(CallsMade, <<>>, FALSE)
            k == pos - DeclNodes
        IN  /\ \A i \in 1..Len(wlog) : wlog[i].out = "ok"
            /\ LastCall("read") => ret.out \in {"true", "false"}
            /\ Len(seen) <= DeclNodes + Len(exp)
            /\ exhausted => Len(seen) = DeclNodes + Len(exp)
            /\ (HasNode /\ attr = 0 /\ k \in 1..Len(exp)) =>
                  /\ LastCall("node_type") => ret.num = exp[k].type
                  /\ (LastCall("local_name") /\ Supplied /\ exp[k].type # 8) =>
                        (ret.out = "string" /\ ret.str = Utf8(exp[k].local))
                  /\ (LastCall("qualified_name") /\ Supplied /\ exp[k].type # 8) =>
                        (ret.out = "string" /\ ret.str = Utf8(exp[k].qname))

\* C2: after start_document(omit), start_element("", "root", ""),
\* attribute("", "id", "", "1"), comment("hi"), end_element(), end_document(),
\* reading the output yields (after an optional declaration node) an element
\* named "root" with exactly one attribute, id="1", reachable by attribute
\* navigation, then the comment "hi", then end_element "root": the empty
\* prefix and namespace URI give an unprefixed name and no declaration.
C2_ScenarioReadBack ==
    (ReadingBack /\ CallsMade = Scenario) =>
        LET k == pos - DeclNodes IN
        /\ LastCall("read") => ret.out \in {"true", "false"}
        /\ Len(seen) <= DeclNodes + 3
        /\ exhausted => Len(seen) = DeclNodes + 3
        /\ (HasNode /\ k >= 1 /\ attr = 0) =>
              /\ LastCall("node_type") => ret.num = <<1, 8, 15>>[k]
              /\ ((LastCall("local_name") \/ LastCall("qualified_name"))
                    /\ Supplied /\ k \in {1, 3})
                    => (ret.out = "string" /\ ret.str = Utf8(tRoot))
              /\ (LastCall("value") /\ Supplied /\ k = 2)
                    => (ret.out = "string" /\ ret.str = Utf8(tHi))
        /\ (HasNode /\ k = 1) =>
              /\ walk.ended => Len(walk.vis) = 1
              /\ \A i \in 1..Len(walk.vis) : walk.vis[i] = Attr(tId, tOne)
              /\ (LastCall("qualified_name") /\ Supplied /\ attr > 0) => ret.str = Utf8(tId)
              /\ (LastCall("value") /\ Supplied /\ attr > 0) => ret.str = Utf8(tOne)

-----------------------------------------------------------------------------
(* Properties of node_type()                                               *)

\* the enumerators of xml::reader::node_type_id
node_type_id == {0, 1, 2, 3, 4, 7, 8, 10, 13, 15, 17}

\* C12: node_type() returns one of the eleven enumerators of node_type_id,
\* whatever the engine reports for the node under the cursor.
C12_NodeTypeIsAnEnumerator == LastCall("node_type") => ret.num \in node_type_id

-----------------------------------------------------------------------------
(* Properties of the writer                                                *)

\* the last call the caller made to the writer
LastWrite == wlog[Len(wlog)]
Wrote(op) == wlog # <<>> /\ LastWrite.op = op
\* the engine call of the last writer call reported failure: -1 from
\* xmlTextWriter, a failure HRESULT from IXmlWriter
EngineFailed == IF backend = "libxml2" THEN LastWrite.code < 0 ELSE FAILED(LastWrite.code)

\* C13: a writer operation whose engine call reports failure raises Write
\* Error, on either backend; a destination that rejects bytes is such a failure.
C13_FailureRaisesWriteError ==
    (wlog # <<>> /\ LastWrite.out # "range_error" /\ EngineFailed)
        => LastWrite.out = "write_error"

\* the destination ends with everything the engine has produced
AllDelivered ==
    /\ Len(wsink) >= Len(wemit)
    /\ SubSeq(wsink, Len(wsink) - Len(wemit) + 1, Len(wsink)) = wemit

\* C14: when end_document() returns normally, no element remains open and
\* everything emitted so far has reached the destination, on either backend.
C14_EndDocumentClosesAndFlushes ==
    (Wrote("end_document") /\ LastWrite.out = "ok") => (wnodes = <<>> /\ AllDelivered)

\* C15: end_element() called with no element open raises Write Error.
C15_EndElementWithNoneOpen ==
    (Wrote("end_element") /\ wbefore[1] = <<>>) => LastWrite.out = "write_error"

\* end_element() has raised with no element open, after an element was
\* written and ended
C15_Witness ==
    /\ Wrote("end_element") /\ wbefore[1] = <<>> /\ LastWrite.out = "write_error"
    /\ Len(wlog) >= 3 /\ wlog[Len(wlog) - 1].op = "end_element"
    /\ wlog[Len(wlog) - 1].out = "ok"

\* the XML declaration the last call produced
LastDecl == wemit[CHOOSE i \in 1..Len(wemit) :
                    wemit[i].t = "decl" /\ \A j \in (i + 1)..Len(wemit) : wemit[j].t # "decl"]

\* C16: start_document(sa) writes no standalone declaration for omit,
\* standalone="yes" for yes and standalone="no" for no, the same on both
\* backends, and the encoding it declares is always UTF-8.
C16_StandaloneAndEncoding ==
    (Wrote("start_document") /\ LastWrite.out = "ok") =>
        /\ LastWrite.args[1] = standalone_omit => LastDecl.sa = NULL
        /\ LastWrite.args[1] = standalone_yes => LastDecl.sa = Ptr(tYes)
        /\ LastWrite.args[1] = standalone_no => LastDecl.sa = Ptr(tNo)
        /\ LastDecl.enc # NULL /\ ToUpper(Deref(LastDecl.enc)) = tUTF8

\* start_document(no) has returned and the declaration has reached the
\* destination
C16_Witness ==
    /\ Wrote("start_document") /\ LastWrite.out = "ok"
    /\ LastWrite.args[1] = standalone_no
    /\ wsink # <<>> /\ wsink[1] = LastDecl /\ LastDecl.sa = Ptr(tNo)

-----------------------------------------------------------------------------
(* Properties of the stream bridges                                        *)

Bridged(op) == cbret.op = op
\* the bridge has reported an error to its engine: -1 to libxml2, a failure
\* HRESULT to XmlLite
ErrorReported == IF backend = "libxml2" THEN cbret.ret = -1 ELSE FAILED(cbret.ret)
\* the stream was in an error state, or on a device that fails
DenotesError(s) == s.bad \/ s.broken

\* C17: asked for N bytes of a stream with k bytes left, the read side of the
\* bridge reports min(N, k) bytes read, for the final short read and for k = 0
\* too, and reports an error only when the stream denotes one.
C17_ReadReportsBytesRead ==
    (Bridged("read") /\ ~DenotesError(cbret.before)) =>
        /\ ~ErrorReported
        /\ cbret.count = (IF cbret.len < cbret.before.left THEN cbret.len
                          ELSE cbret.before.left)

\* C18: the write side of the bridge reports len bytes written when the stream
\* took them all, whatever kind of stream it is, and failure otherwise.
C18_WriteReportsBytesWritten ==
    Bridged("write") =>
        IF out_.failed THEN ErrorReported
        ELSE ~ErrorReported /\ cbret.count = cbret.len

\* C19: the close callback reports success and leaves the caller's stream as
\* it was: after the object is destroyed, or after its construction has
\* failed, the stream is untouched and still open.
C19_CloseLeavesStreamAlone ==
    /\ Bridged("close") => cbret.ret = 0
    /\ (obj \in {"destroyed", "failed"} /\ cbret.op \in {"close", "release"}) =>
            /\ cbret.before \in {in_, out_}
            /\ in_.open /\ out_.open

\* the close callback has run on a stream the bridge had read from, when the
\* reader was destroyed
C19_Witness ==
    /\ obj = "destroyed" /\ Bridged("close") /\ cbret.ret = 0
    /\ cbret.before = in_ /\ in_.eof /\ in_.open

-----------------------------------------------------------------------------
(* Properties of a call that raises                                        *)

\* what the caller can see of the cursor at p, a: node type, names, value
\* and the attribute it is on
CursorView(p, a, m) ==
    <<EngineNodeType(p, a, m), EngineName(p, a, m), EngineLocalName(p, a, m),
      EngineValue(p, a, m), a>>

\* C20: when read(), move_to_first_attribute(), move_to_next_attribute() or a
\* writer operation raises, the cursor as the caller can see it, and the
\* writer's stack of open elements, are as they were before the call.
C20_RaisingCallChangesNothing ==
    /\ (/\ ret.op \in {"read", "move_to_first_attribute", "move_to_next_attribute"}
        /\ ret.out = "parse_error")
            => CursorView(pos, attr, rmode)
                   = CursorView(status.cur[1], status.cur[2], status.cur[3])
    /\ (wlog # <<>> /\ LastWrite.out = "write_error") => wnodes = wbefore[1]

-----------------------------------------------------------------------------
(* The facade as a whole: a reader over a document, or a writer to a      *)
(* destination of the caller                                               *)

InitFacade == Init \/ InitW

NextFacade ==
    \/ read
    \/ move_to_first_attribute
    \/ move_to_next_attribute
    \/ local_name
    \/ qualified_name
    \/ value
    \/ empty_element
    \/ node_type
    \/ line
    \/ col
    \/ start_document
    \/ end_document
    \/ start_element
    \/ end_element
    \/ attribute
    \/ comment
    \/ writer_destroy

SpecFacade == InitFacade /\ [][NextFacade]_vars

\* every call made so far invoked the engine at most once: read() has advanced
\* the engine once per call, the last reader call and every writer call that
\* reached the engine invoked it once
EngineInvokedOnce ==
    /\ engReads = nRead
    /\ (ret.op # "none") => status.calls = 1
    /\ \A i \in 1..Len(wlog) : wlog[i].calls <= 1

\* the engine call of writer call c reported failure
WriteFailed(c) == c.calls > 0 /\ (IF backend = "libxml2" THEN c.code < 0 ELSE FAILED(c.code))

\* the reader operations that move the cursor and are declared to raise
Advancing == {"read", "move_to_first_attribute", "move_to_next_attribute"}

\* C21: every reader and writer operation that forwards to the engine invokes
\* the engine operation exactly once per call, and an engine failure is raised
\* to the caller of that same call (Parse Error from the reader, Write Error
\* from the writer) instead of being retried or passed over.
C21_NoRetries ==
    /\ EngineInvokedOnce
    /\ (ret.op \in Advancing /\ status.code < 0) => ret.out = "parse_error"
    /\ \A i \in 1..Len(wlog) : WriteFailed(wlog[i]) => wlog[i].out = "write_error"

-----------------------------------------------------------------------------
(* Construction, moves and destruction                                     *)

E_NOINTERFACE == HRESULT(32768, 16386)          \* 0x80004002
E_FAIL == HRESULT(32768, 16389)                 \* 0x80004005

\* how one step of a construction goes: it succeeds, it fails because memory
\* cannot be allocated, or it fails for another reason
StepOutcomes == {"ok", "nomem", "other"}
\* the HRESULT of a step of the XmlLite build
Hr(o) == IF o = "ok" THEN S_OK ELSE IF o = "nomem" THEN E_OUTOFMEMORY ELSE E_FAIL
Cause(hr) == IF hr = E_OUTOFMEMORY THEN "nomem" ELSE "other"

\* the steps of a construction: creating the bridge (operator new), opening
\* the file, creating the reader input / writer output, creating the engine,
\* SetInput / SetOutput; at most one of them fails
Steps == {"alloc", "open", "mid", "factory", "set"}
AllOk == [s \in Steps |-> "ok"]
Outcomes ==
    {AllOk} \cup {[AllOk EXCEPT ![s] = "nomem"] : s \in Steps}
            \cup {[AllOk EXCEPT ![s] = "other"] : s \in Steps \ {"alloc"}}

\* the encodings a document may declare for itself
Declared == {"none", "UTF-8", "ISO-8859-1"}

\* IUnknown::Release on each native object: the object that reaches zero goes
\* away and lets go of what it holds (com_istream::Release deletes the bridge)
ReleaseStream(n) ==
    IF n.stream = 1 THEN [n EXCEPT !.stream = 0, !.deleted = @ + 1]
    ELSE [n EXCEPT !.stream = @ - 1]
ReleaseMid(n) ==
    IF n.mid = 1 THEN ReleaseStream([n EXCEPT !.mid = 0])
    ELSE [n EXCEPT !.mid = @ - 1]
ReleaseEngine(n) ==
    IF n.engine > 1 THEN [n EXCEPT !.engine = @ - 1]
    ELSE LET gone == [n EXCEPT !.engine = 0, !.holds = "none"] IN
         IF n.holds = "mid" THEN ReleaseMid(gone)
         ELSE IF n.holds = "stream" THEN ReleaseStream(gone)
         ELSE gone

\* the two finally-guards of a constructor that throws: f2 releases the engine
\* when there is one, then f1 releases the stream when there is one
Unwind(n) ==
    LET a == IF n.engine > 0 THEN ReleaseEngine(n) ELSE n
    IN  IF a.stream > 0 THEN ReleaseStream(a) ELSE a
Throw(n, exc, step, cause) ==
    [Unwind(n) EXCEPT !.thrown = exc, !.step = step, !.cause = cause]
\* `if (hr == E_OUTOFMEMORY) throw std::bad_alloc{}; throw std::runtime_error{..}`
ThrowChecked(n, step, hr) ==
    Throw(n, IF hr = E_OUTOFMEMORY THEN "bad_alloc" ELSE "runtime_error", step, Cause(hr))
\* `throw std::runtime_error{..}` whatever the HRESULT
ThrowRuntime(n, step, hr) == Throw(n, "runtime_error", step, Cause(hr))

\* the XmlLite factories: each produces its own kind of object and answers
\* E_NOINTERFACE when asked for an interface that object does not have
CreateXmlReader(riid, hr) ==
    IF FAILED(hr) THEN hr ELSE IF riid = "IXmlReader" THEN S_OK ELSE E_NOINTERFACE
CreateXmlWriter(riid, hr) ==
    IF FAILED(hr) THEN hr ELSE IF riid = "IXmlWriter" THEN S_OK ELSE E_NOINTERFACE

\* xml::reader::impl::impl(const std::string &), XmlLite build
reader_impl_path_xmllite(o) ==
    LET n0 == Native("reader", "path")
        hr1 == Hr(o["open"])                            \* SHCreateStreamOnFile
        n1 == [n0 EXCEPT !.stream = 1]
        hr2 == CreateXmlReader("IXmlReader", Hr(o["factory"]))
        n2 == [n1 EXCEPT !.engine = 1, !.iid = "IXmlReader"]
        hr3 == Hr(o["set"])                             \* SetInput(this->input)
        n3 == [n2 EXCEPT !.holds = "stream", !.stream = @ + 1]
    IN  IF FAILED(hr1) THEN ThrowChecked(n0, "open", hr1)
        ELSE IF FAILED(hr2) THEN ThrowChecked(n1, "factory", hr2)
        ELSE IF FAILED(hr3) THEN ThrowRuntime(n2, "set", hr3)
        ELSE n3

\* xml::reader::impl::impl(std::istream &), XmlLite build
reader_impl_stream_xmllite(o) ==
    LET n0 == Native("reader", "stream")
        n1 == [n0 EXCEPT !.stream = 1]                  \* new com_istream{in}
        hr2 == Hr(o["mid"])          \* CreateXmlReaderInputWithEncodingName
        n2 == [n1 EXCEPT !.mid = 1, !.stream = @ + 1, !.encoding = "UTF-8"]
        hr3 == CreateXmlReader("IXmlReader", Hr(o["factory"]))
        n3 == [n2 EXCEPT !.engine = 1, !.iid = "IXmlReader"]
        hr4 == Hr(o["set"])                             \* SetInput(xml_input)
        n4 == [n3 EXCEPT !.holds = "mid", !.mid = @ + 1]
    IN  IF o["alloc"] # "ok" THEN Throw(n0, "bad_alloc", "alloc", o["alloc"])
        ELSE IF FAILED(hr2) THEN ThrowRuntime(n1, "mid", hr2)
        ELSE IF FAILED(hr3) THEN ThrowRuntime(n2, "factory", hr3)
        ELSE IF FAILED(hr4) THEN ThrowRuntime(n3, "set", hr4)
        ELSE n4

\* xml::writer::impl::impl(const std::string &), XmlLite build
writer_impl_path_xmllite(o) ==
    LET n0 == Native("writer", "path")
        hr1 == Hr(o["open"])                            \* SHCreateStreamOnFile
        n1 == [n0 EXCEPT !.stream = 1]
        hr2 == Hr(o["mid"])      \* CreateXmlWriterOutputWithEncodingCodePage
        n2 == [n1 EXCEPT !.mid = 1, !.stream = @ + 1, !.encoding = "UTF-8"]
        hr3 == CreateXmlReader("IXmlWriter", Hr(o["factory"]))
        n3 == [n2 EXCEPT !.engine = 1, !.iid = "IXmlWriter"]
        hr4 == Hr(o["set"])                             \* SetOutput(xml_output)
        n4 == [n3 EXCEPT !.holds = "mid", !.mid = @ + 1]
    IN  IF FAILED(hr1) THEN ThrowChecked(n0, "open", hr1)
        ELSE IF FAILED(hr2) THEN ThrowRuntime(n1, "mid", hr2)
        ELSE IF FAILED(hr3) THEN ThrowChecked(n2, "factory", hr3)
        ELSE IF FAILED(hr4) THEN ThrowRuntime(n3, "set", hr4)
        ELSE n4

\* xml::writer::impl::impl(std::ostream &), XmlLite build
writer_impl_stream_xmllite(o) ==
    LET n0 == Native("writer", "stream")
        n1 == [n0 EXCEPT !.stream = 1]                  \* new com_ostream{out}
        hr2 == Hr(o["mid"])      \* CreateXmlWriterOutputWithEncodingCodePage
        n2 == [n1 EXCEPT !.mid = 1, !.stream = @ + 1, !.encoding = "UTF-8"]
        hr3 == CreateXmlWriter("IXmlWriter", Hr(o["factory"]))
        n3 == [n2 EXCEPT !.engine = 1, !.iid = "IXmlWriter"]
        hr4 == Hr(o["set"])                             \* SetOutput(xml_output)
        n4 == [n3 EXCEPT !.holds = "mid", !.mid = @ + 1]
    IN  IF o["alloc"] # "ok" THEN Throw(n0, "bad_alloc", "alloc", o["alloc"])
        ELSE IF FAILED(hr2) THEN ThrowRuntime(n1, "mid", hr2)
        ELSE IF FAILED(hr3) THEN ThrowRuntime(n2, "factory", hr3)
        ELSE IF FAILED(hr4) THEN ThrowRuntime(n3, "set", hr4)
        ELSE n4

\* the libxml2 constructors: the engine function returns null when it fails,
\* for lack of memory or otherwise, and the constructor throws runtime_error.
\* xmlReaderForFile and xmlReaderForIO are given encoding = 0: the engine finds
\* the encoding out from the document.
reader_impl_path_libxml2(o) ==
    LET n0 == Native("reader", "path") IN
    IF o["factory"] # "ok" THEN Throw(n0, "runtime_error", "factory", o["factory"])
    ELSE [n0 EXCEPT !.engine = 1, !.iid = "xmlTextReader", !.encoding = "auto"]

reader_impl_stream_libxml2(o) ==
    LET n0 == Native("reader", "stream") IN
    IF o["factory"] # "ok" THEN Throw(n0, "runtime_error", "factory", o["factory"])
    ELSE [n0 EXCEPT !.engine = 1, !.iid = "xmlTextReader", !.encoding = "auto"]

writer_impl_path_libxml2(o) ==
    LET n0 == Native("writer", "path") IN
    IF o["factory"] # "ok" THEN Throw(n0, "runtime_error", "factory", o["factory"])
    ELSE [n0 EXCEPT !.engine = 1, !.iid = "xmlTextWriter", !.encoding = "UTF-8"]

writer_impl_stream_libxml2(o) ==
    LET n0 == Native("writer", "stream") IN
    IF o["mid"] # "ok" THEN Throw(n0, "runtime_error", "mid", o["mid"])
    ELSE IF o["factory"] # "ok" THEN Throw(n0, "runtime_error", "factory", o["factory"])
    ELSE [n0 EXCEPT !.engine = 1, !.iid = "xmlTextWriter", !.encoding = "UTF-8"]

\* xml::reader::impl::~impl / xml::writer::impl::~impl: XmlLite releases the
\* engine and then the stream, libxml2 frees the engine
impl_destroy(n) ==
    LET ran == [n EXCEPT !.freed = @ + 1] IN
    IF backend = "xmllite" THEN ReleaseStream(ReleaseEngine(ran))
    ELSE [ran EXCEPT !.engine = 0]

\* the encoding the engine reads a document in: the one it was configured
\* with, or the one the document declares (UTF-8 when it declares none)
Interpretation(n) ==
    IF n.encoding # "auto" THEN n.encoding
    ELSE IF n.declared = "none" THEN "UTF-8" ELSE n.declared

\* the facade objects looked at, and the constructions that may succeed
MaxObjects == 2

Unborn(i) == owner[i].state = "unborn"
Alive(i) == owner[i].state = "alive"
Facade(state, impl) == [state |-> state, impl |-> impl]

\* `impl_{new impl{..}}`: when the constructor of impl throws, the facade
\* object never comes to exist ("failed"); when it returns, the object owns the
\* new engine
Construct(i, o, native) ==
    /\ \E n \in {[native EXCEPT !.given = o]} :
        /\ made' = n
        /\ IF n.thrown = "none"
           THEN /\ engines' = Append(engines, [native EXCEPT !.declared = "none"])
                /\ owner' = [owner EXCEPT ![i] = Facade("alive", Len(engines) + 1)]
           ELSE /\ engines' = engines
                /\ owner' = [owner EXCEPT ![i] = Facade("failed", 0)]
    /\ UNCHANGED <<backend, chunk, wcap, phase, bvars, wvars, rvars>>

Constructing(i) == phase = "objects" /\ Unborn(i)

\* xml::reader::reader(const std::string &)
reader_from_path ==
    \E i \in 1..MaxObjects, o \in Outcomes :
        /\ Constructing(i)
        /\ Construct(i, o, IF o["alloc"] # "ok"
                        THEN Throw(Native("reader", "path"), "bad_alloc", "alloc", "nomem")
                        ELSE IF backend = "xmllite" THEN reader_impl_path_xmllite(o)
                        ELSE reader_impl_path_libxml2(o))

\* xml::reader::reader(std::istream &), over a document that declares d
reader_from_stream ==
    \E i \in 1..MaxObjects, o \in Outcomes, d \in Declared :
        /\ Constructing(i)
        /\ Construct(i, o, [(IF o["alloc"] # "ok"
                          THEN Throw(Native("reader", "stream"), "bad_alloc", "alloc", "nomem")
                          ELSE IF backend = "xmllite" THEN reader_impl_stream_xmllite(o)
                          ELSE reader_impl_stream_libxml2(o)) EXCEPT !.declared = d])

\* xml::writer::writer(const std::string &)
writer_from_path ==
    \E i \in 1..MaxObjects, o \in Outcomes :
        /\ Constructing(i)
        /\ Construct(i, o, IF o["alloc"] # "ok"
                        THEN Throw(Native("writer", "path"), "bad_alloc", "alloc", "nomem")
                        ELSE IF backend = "xmllite" THEN writer_impl_path_xmllite(o)
                        ELSE writer_impl_path_libxml2(o))

\* xml::writer::writer(std::ostream &)
writer_from_stream ==
    \E i \in 1..MaxObjects, o \in Outcomes :
        /\ Constructing(i)
        /\ Construct(i, o, IF o["alloc"] # "ok"
                        THEN Throw(Native("writer", "stream"), "bad_alloc", "alloc", "nomem")
                        ELSE IF backend = "xmllite" THEN writer_impl_stream_xmllite(o)
                        ELSE writer_impl_stream_libxml2(o))

\* a move constructor that leaves the source its pointer
move_construct_copying ==
    \E i, j \in 1..MaxObjects :
        /\ phase = "objects" /\ Unborn(i) /\ Alive(j)
        /\ owner' = [owner EXCEPT ![i] = Facade("alive", owner[j].impl)]
        /\ made' = NoNative
        /\ UNCHANGED <<backend, chunk, wcap, engines, phase, bvars, wvars, rvars>>

\* xml::reader::reader(reader &&), xml::writer::writer(writer &&):
\* impl_{std::move(r.impl_)}
move_construct ==
    \E i, j \in 1..MaxObjects :
        /\ phase = "objects" /\ Unborn(i) /\ Alive(j)
        /\ owner' = [owner EXCEPT ![i] = Facade("alive", owner[j].impl),
                                  ![j] = Facade("alive", 0)]
        /\ made' = NoNative
        /\ UNCHANGED <<backend, chunk, wcap, engines, phase, bvars, wvars, rvars>>

\* the engines after the unique_ptr has deleted the impl at place e
Deleted(e) == IF e = 0 THEN engines ELSE [engines EXCEPT ![e] = impl_destroy(@)]

\* xml::reader::operator=(reader &&), xml::writer::operator=(writer &&):
\* this->impl_ = std::move(r.impl_), that is reset(r.impl_.release()); the
\* source may be the target itself
move_assign ==
    \E i, j \in 1..MaxObjects :
        /\ phase = "objects" /\ Alive(i) /\ Alive(j)
        /\ LET p == owner[j].impl
               released == [owner EXCEPT ![j] = Facade("alive", 0)]
               old == released[i].impl
           IN  /\ owner' = [released EXCEPT ![i] = Facade("alive", p)]
               /\ engines' = Deleted(old)
        /\ made' = NoNative
        /\ UNCHANGED <<backend, chunk, wcap, phase, bvars, wvars, rvars>>

\* xml::reader::~reader, xml::writer::~writer: the unique_ptr deletes the impl
\* it holds, if any
destruct ==
    \E i \in 1..MaxObjects :
        /\ phase = "objects" /\ Alive(i)
        /\ owner' = [owner EXCEPT ![i] = Facade("dead", 0)]
        /\ engines' = Deleted(owner[i].impl)
        /\ made' = NoNative
        /\ UNCHANGED <<backend, chunk, wcap, phase, bvars, wvars, rvars>>

InitObjects ==
    /\ backend \in Backends
    /\ chunk = WholeDocument
    /\ wcap = WholeDocument
    /\ phase = "objects"
    /\ NoWriter
    /\ NoBridge
    /\ doc = [nodes |-> <<>>, err |-> NULL]
    /\ FreshReader
    /\ made = NoNative
    /\ engines = <<>>
    /\ owner = [i \in 1..MaxObjects |-> Facade("unborn", 0)]

NextObjects ==
    \/ reader_from_path
    \/ reader_from_stream
    \/ writer_from_path
    \/ writer_from_stream
    \/ move_construct
    \/ move_assign
    \/ destruct

SpecObjects == InitObjects /\ [][NextObjects]_vars

-----------------------------------------------------------------------------
(* Properties of construction, moves and destruction                       *)

\* C22: in every constructor of Reader and Writer, from a path or a stream,
\* on either backend, a construction step that fails because memory cannot be
\* allocated makes the constructor raise std::bad_alloc, never
\* std::runtime_error.
C22_AllocationFailureIsBadAlloc == (made.cause = "nomem") => made.thrown = "bad_alloc"

\* C23: a Reader constructed from a stream has its engine read the bytes as
\* UTF-8 whatever encoding the document declares, on either backend.
C23_StreamReaderReadsUtf8 ==
    (made.kind = "reader" /\ made.from = "stream" /\ made.thrown = "none")
        => (made.encoding = "UTF-8" /\ Interpretation(made) = "UTF-8")

\* the facade objects that own the engine at place k
OwnersOf(k) == {i \in 1..MaxObjects : Alive(i) /\ owner[i].impl = k}

\* C24: after any sequence of constructions, move constructions, move
\* assignments and destructions every engine that has not been released is
\* owned by exactly one facade object, a released engine by none, and no
\* engine is released twice.
C24_ExclusiveOwnership ==
    \A k \in 1..Len(engines) :
        /\ engines[k].freed <= 1
        /\ (engines[k].freed = 0) => Cardinality(OwnersOf(k)) = 1
        /\ (engines[k].freed = 1) => OwnersOf(k) = {}

\* a move assignment between two objects that each owned an engine: the
\* target's previous engine is released, the source is left owning nothing
C24_Witness ==
    /\ Len(engines) = 2
    /\ engines[1].freed = 1
    /\ engines[2].freed = 0
    /\ \E i, j \in 1..MaxObjects :
        /\ Alive(i) /\ owner[i].impl = 2
        /\ Alive(j) /\ owner[j].impl = 0
    /\ \A i \in 1..MaxObjects : owner[i].state # "dead"

\* every reference the facade took on the native objects of n is given back
\* and the stream object has been deleted exactly once
AllReleased(n) == n.stream = 0 /\ n.mid = 0 /\ n.engine = 0 /\ n.deleted = 1

\* C25: with XmlLite, a stream-backed construction that fails after the
\* bridge was made, and one that succeeds and is later destroyed, leave no
\* reference on the bridge, the reader input / writer output or the engine,
\* and the bridge is deleted exactly once.
C25_BridgeDeletedOnce ==
    backend = "xmllite" =>
        /\ (made.from = "stream" /\ made.thrown # "none" /\ made.step # "alloc")
                => AllReleased(made)
        /\ \A k \in 1..Len(engines) :
                (engines[k].from = "stream" /\ engines[k].freed > 0)
                    => AllReleased(engines[k])

\* C28: with XmlLite, constructing a Writer from a path whose file can be
\* created, with every engine factory succeeding when asked for the kind of
\* object it produces, raises nothing and leaves the Writer owning an
\* IXmlWriter, as the stream constructor does.
C28_PathWriterConstructs ==
    (backend = "xmllite" /\ made.kind = "writer" /\ made.from = "path"
        /\ made.given = AllOk)
        => (made.thrown = "none" /\ made.iid = "IXmlWriter")

-----------------------------------------------------------------------------
(* The XmlLite error codes and their messages                              *)

\* the label (the low byte of the error code, in the comment in front of each
\* message) of the message at place p of reader_errmsg: the table has places
\* 0..113, labelled 00..0F, 20..2D and 2F..82
reader_errmsg_label(p) == IF p < 16 THEN p ELSE IF p < 30 THEN p + 16 ELSE p + 17
Labelled == {reader_errmsg_label(p) : p \in 0..(reader_errmsg_size - 1)}

\* the HRESULTs an engine call is looked at with: the reader codes
\* 0xC00CEE00..0xC00CEE83, the writer codes 0xC00CEF00..0xC00CEF0D, the codes
\* 0xC00CE01C..0xC00CE020 around the three of misc_errmsg, and two failures that
\* are no XmlLite code
Codes ==
    {xmllite_reader_hresult_base + k : k \in 0..131}
        \cup {xmllite_writer_hresult_base + k : k \in 0..13}
        \cup {xmllite_misc_hresult_base + k : k \in -1..3}
        \cup {E_OUTOFMEMORY, E_FAIL}

\* xml::reader::read, XmlLite build, when IXmlReader::Read fails with hr
read_failing ==
    /\ phase = "errors"
    /\ \E hr \in Codes :
        \E o \in read_xmllite(hr, 1) :
            /\ ret' = o
            /\ status' = Status(hr, NULL)
    /\ UNCHANGED <<env, phase, bvars, wvars, doc, pos, attr, rmode, error, seen,
                   exhausted, walk, nRead, engReads>>

\* xml::writer::start_element, XmlLite build, when
\* IXmlWriter::WriteStartElement fails with hr
start_element_failing ==
    /\ phase = "errors"
    /\ \E hr \in Codes :
        \E o \in write_xmllite(hr) :
            wlog' = <<WCall("start_element", <<>>, o.out, o.num, hr, 1)>>
    /\ UNCHANGED <<env, phase, bvars, rvars, todo, wlive, wnodes, wns, wstate, wbuf,
                   wsink, wemit, out_, wbefore>>

InitErrors ==
    /\ backend = "xmllite"
    /\ chunk = 1
    /\ wcap = WholeDocument
    /\ phase = "errors"
    /\ NoWriter
    /\ NoBridge
    /\ doc = [nodes |-> <<>>, err |-> NULL]
    /\ FreshReader
    /\ NoObjects

NextErrors ==
    \/ read_failing
    \/ start_element_failing

SpecErrors == InitErrors /\ [][NextErrors]_vars

\* the last read() raised Parse Error, the last start_element() Write Error
RaisedParseError == ret.op = "read" /\ ret.out \in {"parse_error", "crash"}
RaisedWriteError == wlog # <<>> /\ wlog[1].out \in {"write_error", "crash"}

\* C26: every HRESULT that is_xmllite_reader_error accepts designates a place
\* inside reader_errmsg, and every HRESULT that is_xmllite_writer_error accepts
\* a place inside writer_errmsg, the three codes 0xC00CE01D..0xC00CE01F
\* included.
C26_IndexWithinTable ==
    /\ RaisedParseError
        => SizeTLess(reader_errmsg_index(status.code), reader_errmsg_size)
    /\ RaisedWriteError
        => SizeTLess(writer_errmsg_index(wlog[1].code), writer_errmsg_size)

\* C27: for every reader code 0xC00CEE00 + k whose k has a message labelled k
\* in reader_errmsg, is_xmllite_reader_error accepts the code and the message
\* throw_parse_error selects is the one labelled k.
C27_MessageOfItsCode ==
    LET k == status.code - xmllite_reader_hresult_base IN
    (phase = "errors" /\ ret.op = "read" /\ k \in Labelled \ {0})
        => /\ is_xmllite_reader_error(status.code)
           /\ ret.out = "parse_error"
           /\ reader_errmsg_label(ret.num) = k

-----------------------------------------------------------------------------
(* Properties of the error slot of the libxml2 build                       *)

\* the last call was read() or an attribute move, and raised Parse Error
RaisedByLibxml2 ==
    backend = "libxml2" /\ phase = "read" /\ ret.op \in Advancing /\ ret.out = "parse_error"
\* what the Parse Error of the last call carries
Carried == [line |-> ret.line, msg |-> ret.num]

\* C29: with libxml2, for a reader made from a path or from a stream, when the
\* engine has invoked the error callback one or more times during a read() or
\* an attribute move that then fails, the Parse Error raised carries the line
\* and the message of the last of these invocations.
C29_LastReportIsCarried ==
    /\ \A c \in Contexts : Designated(c) = "error"
    /\ (RaisedByLibxml2 /\ status.reported # <<>>)
            => Carried = status.reported[Len(status.reported)]

\* a read() during which the engine reported two errors, the second on
\* another line than the first
C29_Witness ==
    /\ RaisedByLibxml2
    /\ Len(status.reported) = 2
    /\ status.reported[1] # status.reported[2]
    /\ status.reported[1].line # status.reported[2].line

\* C30: with libxml2, a Parse Error raised by read(), move_to_first_attribute()
\* or move_to_next_attribute() carries a line and a message the engine reported
\* through the callback during that same call: never the placeholder (line 0,
\* no message) the slot starts with, never what an earlier call left there.
C30_ReportedDuringTheCall ==
    RaisedByLibxml2 =>
        /\ Carried # NoError
        /\ \E i \in 1..Len(status.reported) : status.reported[i] = Carried

====
